---- MODULE Spec2Model ----
(***************************************************************************)
(* SearchService (server/src/services/search.service.ts): the duplicate    *)
(* detection job handler, run by several workers at once over one asset    *)
(* table, and the search request handlers.  Every await of a handler is    *)
(* one step; the code between two awaits runs with the step before it.     *)
(* AlbumRepository (the generated SQL of its statements): the queries, the  *)
(* statements that write albums_assets_assets, and updateThumbnails over   *)
(* the album tables, one statement per step.                               *)
(***************************************************************************)
EXTENDS Integers, Sequences, FiniteSets, TLC

\* ------------------------------------------------------------------ bounds
NumAssets == 3
NumUsers == 2
NumGroups == 2
MaxJobs == 2
MaxThreshold == 2
MaxPartners == 2
MaxItems == 2
MaxPage == 9
MaxSize == 1
NumAlbums == 2
NumAlbumAssets == 2
MaxLinks == 1
MaxWrites == 4

\* `null` / `undefined` of an id column
Null == 0

AssetIds == 1 .. NumAssets
\* an id no row of the asset table has
MissingId == NumAssets + 1
JobIds == AssetIds \cup {MissingId}
UserIds == 1 .. NumUsers
\* duplicate ids already stored before any job runs
GroupIds == 1 .. NumGroups
Jobs == 1 .. MaxJobs

\* asset.resizePath: a path, or the empty value the guard `!asset.resizePath` rejects
NoPath == ""
ResizePaths == {NoPath, "thumbs/preview.jpeg"}

SKIPPED == "skipped"
FAILED == "failed"
SUCCESS == "success"
JobStatus == {SKIPPED, FAILED, SUCCESS}

VARIABLES
    assets,         \* asset table: id -> [ownerId, isVisible, resizePath, duplicateId]
    jobStatus,      \* asset_job_status: id -> number of duplicatesDetectedAt writes
    machineLearning,\* system config: [enabled, clip: [enabled, duplicateThreshold]]
    uuidCount,      \* number of cryptoRepository.randomUUID() calls so far
    job,            \* job -> the locals of one handleSearchDuplicates invocation
    assets0,        \* history: the asset table before any job ran
    concurrency,    \* number of workers of the duplicate detection queue
    featureFlags,   \* system config: [search, smartSearch], what requireFeature reads
    req,            \* the locals of one request handled by the service
    queueRun,       \* the locals of one handleQueueSearchDuplicates invocation
    queue,          \* the jobs handed to jobRepository.queueAll so far, in order
    scope,          \* one evaluation of getUserIdsToSearch: its input and its result
    albumDb,        \* the tables the AlbumRepository statements read and write
    albumCall       \* the AlbumRepository call being answered: [op, args, result, before]

jobVars == <<assets, jobStatus, machineLearning, uuidCount, job, assets0, concurrency>>
searchVars == <<featureFlags, req>>
queueVars == <<queueRun, queue>>
albumVars == <<albumDb, albumCall>>
vars == <<jobVars, searchVars, queueVars, scope, albumVars>>

\* ------------------------------------------------------------- helpers
\* JavaScript truthiness of an id and of a path
Boolean(x) == x # Null
HasPath(p) == p # NoPath

RECURSIVE FilterBoolean(_)
\* duplicateAssets.map((duplicate) => duplicate.duplicateId).filter(Boolean)
FilterBoolean(s) ==
    IF s = <<>> THEN <<>>
    ELSE IF Boolean(Head(s).duplicateId)
         THEN <<Head(s).duplicateId>> \o FilterBoolean(Tail(s))
         ELSE FilterBoolean(Tail(s))

\* duplicateAssets.map((duplicate) => duplicate.assetId)
MapAssetId(s) == [i \in 1 .. Len(s) |-> s[i].assetId]

Range(s) == {s[i] : i \in 1 .. Len(s)}

\* every ordering of a finite set
Orderings(S) ==
    {s \in [1 .. Cardinality(S) -> S] : \A i, k \in 1 .. Cardinality(S) : s[i] = s[k] => i = k}

\* cryptoRepository.randomUUID(): a value no stored id and no earlier call has
RandomUUID(n) == NumGroups + n + 1

\* ------------------------------------------------- repositories (the database)
\* assetRepository.getById(id): the row, or nothing
NoAsset ==
    [found |-> FALSE, id |-> Null, ownerId |-> Null, isVisible |-> FALSE,
     resizePath |-> NoPath, duplicateId |-> Null]
GetById(tbl, id) ==
    IF id \in DOMAIN tbl
    THEN [found |-> TRUE, id |-> id, ownerId |-> tbl[id].ownerId,
          isVisible |-> tbl[id].isVisible, resizePath |-> tbl[id].resizePath,
          duplicateId |-> tbl[id].duplicateId]
    ELSE NoAsset

\* smart_search.embedding of an asset, and the distance of two embeddings
Embedding(a) == a
Distance(a, b) ==
    IF Embedding(a) >= Embedding(b) THEN Embedding(a) - Embedding(b)
    ELSE Embedding(b) - Embedding(a)

\* searchRepository.searchDuplicates({assetId, maxDistance, userIds}): the other
\* visible assets of these users within maxDistance, each with its current
\* duplicateId, in any order the database may return them
DuplicateCandidates(tbl, assetId, maxDistance, userIds) ==
    {b \in DOMAIN tbl :
        /\ b # assetId
        /\ tbl[b].ownerId \in userIds
        /\ tbl[b].isVisible
        /\ Distance(assetId, b) <= maxDistance}
SearchDuplicates(tbl, assetId, maxDistance, userIds) ==
    {[i \in 1 .. Len(o) |-> [assetId |-> o[i], duplicateId |-> tbl[o[i]].duplicateId]] :
        o \in Orderings(DuplicateCandidates(tbl, assetId, maxDistance, userIds))}

\* assetDuplicateRepository.upsert(duplicateId, assetIds, duplicateIds): one
\* statement that sets duplicateId on the listed assets and on every asset
\* whose duplicateId is one of duplicateIds
Upsert(tbl, duplicateId, assetIds, duplicateIds) ==
    [a \in DOMAIN tbl |->
        IF a \in Range(assetIds) \/ tbl[a].duplicateId \in Range(duplicateIds)
        THEN [tbl[a] EXCEPT !.duplicateId = duplicateId]
        ELSE tbl[a]]

\* assetRepository.upsertJobStatus({assetId, duplicatesDetectedAt: new Date()})
UpsertJobStatus(st, assetId) == [st EXCEPT ![assetId] = TRUE]

\* ------------------------------------------ handleSearchDuplicates: pure parts
\* mutant: the preview guard ahead of the duplicateId guard
GuardPreviewFirst(asset) ==
    IF ~asset.found THEN "notFound"
    ELSE IF ~asset.isVisible THEN "notVisible"
    ELSE IF ~HasPath(asset.resizePath) THEN "noPreview"
    ELSE IF Boolean(asset.duplicateId) THEN "hasDuplicateId"
    ELSE "search"

\* mutant: the duplicateId guard ahead of the visibility guard
GuardDuplicateFirst(asset) ==
    IF ~asset.found THEN "notFound"
    ELSE IF Boolean(asset.duplicateId) THEN "hasDuplicateId"
    ELSE IF ~asset.isVisible THEN "notVisible"
    ELSE IF ~HasPath(asset.resizePath) THEN "noPreview"
    ELSE "search"

\* the four guards between getById and searchDuplicates, in the code's order
Guard(asset) ==
    IF ~asset.found THEN "notFound"
    ELSE IF ~asset.isVisible THEN "notVisible"
    ELSE IF Boolean(asset.duplicateId) THEN "hasDuplicateId"
    ELSE IF ~HasPath(asset.resizePath) THEN "noPreview"
    ELSE "search"

\* mutant: a hidden asset is skipped without recording duplicatesDetectedAt
AfterGuardHiddenReturns(g) ==
    CASE g = "notFound" -> [pc |-> "done", status |-> FAILED]
      [] g = "notVisible" -> [pc |-> "done", status |-> SKIPPED]
      [] g = "hasDuplicateId" -> [pc |-> "done", status |-> SKIPPED]
      [] g = "noPreview" -> [pc |-> "done", status |-> FAILED]
      [] OTHER -> [pc |-> "searchDuplicates", status |-> "none"]

\* mutant: an asset that already has a duplicateId is skipped like a hidden one,
\* recording duplicatesDetectedAt
AfterGuardDuplicateRecords(g) ==
    CASE g = "notFound" -> [pc |-> "done", status |-> FAILED]
      [] g = "notVisible" -> [pc |-> "skipJobStatus", status |-> "none"]
      [] g = "hasDuplicateId" -> [pc |-> "skipJobStatus", status |-> "none"]
      [] g = "noPreview" -> [pc |-> "done", status |-> FAILED]
      [] OTHER -> [pc |-> "searchDuplicates", status |-> "none"]

\* where the handler goes after the guards, and what it returns when it returns
AfterGuard(g) ==
    CASE g = "notFound" -> [pc |-> "done", status |-> FAILED]
      [] g = "notVisible" -> [pc |-> "skipJobStatus", status |-> "none"]
      [] g = "hasDuplicateId" -> [pc |-> "done", status |-> SKIPPED]
      [] g = "noPreview" -> [pc |-> "done", status |-> FAILED]
      [] OTHER -> [pc |-> "searchDuplicates", status |-> "none"]

\* mutant: the upsert is not guarded by the length of the result
AfterSearchAlways(duplicateAssets) == "upsert"

\* mutant: the length test inverted
AfterSearchInverted(duplicateAssets) ==
    IF Len(duplicateAssets) > 0 THEN "upsertJobStatus" ELSE "upsert"

\* if (duplicateAssets.length > 0) { ... upsert ... }
AfterSearch(duplicateAssets) ==
    IF Len(duplicateAssets) > 0 THEN "upsert" ELSE "upsertJobStatus"

\* mutant: the last existing duplicate id instead of the first
ChooseLastDuplicateId(duplicateIds, n) ==
    IF duplicateIds # <<>> /\ Boolean(duplicateIds[Len(duplicateIds)])
    THEN [duplicateId |-> duplicateIds[Len(duplicateIds)], usedUUID |-> FALSE]
    ELSE [duplicateId |-> RandomUUID(n), usedUUID |-> TRUE]

\* duplicateIds[0] || this.cryptoRepository.randomUUID(): the id and whether
\* randomUUID was called
ChooseDuplicateId(duplicateIds, n) ==
    IF duplicateIds # <<>> /\ Boolean(duplicateIds[1])
    THEN [duplicateId |-> duplicateIds[1], usedUUID |-> FALSE]
    ELSE [duplicateId |-> RandomUUID(n), usedUUID |-> TRUE]

\* mutant: unshift instead of push
DuplicateAssetIdsOwnFirst(duplicateAssets, id) == <<id>> \o MapAssetId(duplicateAssets)

\* duplicateAssets.map(...assetId); duplicateAssetIds.push(asset.id)
DuplicateAssetIds(duplicateAssets, id) == Append(MapAssetId(duplicateAssets), id)

\* mutant: a rejected upsert is swallowed and the handler goes on
OnRejectSwallowUpsert(pc) == IF pc = "upsert" THEN "upsertJobStatus" ELSE "thrown"

\* a rejected await is not caught: the handler ends with the rejection
OnReject(pc) == "thrown"

\* the repository call a handler at pc is waiting for
PendingCall(pc) == IF pc = "skipJobStatus" THEN "upsertJobStatus" ELSE pc
Awaiting == {"getById", "skipJobStatus", "searchDuplicates", "upsert", "upsertJobStatus"}

\* ---------------------------------------------- handleSearchDuplicates: steps
IdleJob ==
    [pc |-> "idle", id |-> Null, maxDistance |-> 0, asset |-> NoAsset,
     duplicateAssets |-> <<>>, duplicateIds |-> <<>>, duplicateId |-> Null,
     duplicateAssetIds |-> <<>>, usedUUID |-> FALSE, status |-> "none",
     calls |-> <<>>, rejected |-> "none",
     searchOptions |-> [assetId |-> Null, maxDistance |-> 0, userIds |-> <<>>]]

\* handleSearchDuplicates({ id }) is invoked and reads the configuration
Start(j, id) ==
    /\ job[j].pc = "idle"
    /\ j <= concurrency
    /\ \A k \in Jobs : k < j => job[k].pc # "idle"
    /\ job' = [job EXCEPT ![j] =
                 [@ EXCEPT !.pc = "getById", !.id = id,
                           !.maxDistance = machineLearning.clip.duplicateThreshold]]
    /\ UNCHANGED <<assets, jobStatus, machineLearning, uuidCount, assets0, concurrency, searchVars, queueVars, scope, albumVars>>

\* await assetRepository.getById(id), then the guards
StepGetById(j) ==
    /\ job[j].pc = "getById"
    /\ LET asset == GetById(assets, job[j].id)
           next == AfterGuard(Guard(asset))
       IN job' = [job EXCEPT ![j] =
                    [@ EXCEPT !.pc = next.pc, !.status = next.status, !.asset = asset,
                              !.calls = Append(@, "getById")]]
    /\ UNCHANGED <<assets, jobStatus, machineLearning, uuidCount, assets0, concurrency, searchVars, queueVars, scope, albumVars>>

\* the asset is not visible: await upsertJobStatus, return SKIPPED
StepSkipJobStatus(j) ==
    /\ job[j].pc = "skipJobStatus"
    /\ jobStatus' = UpsertJobStatus(jobStatus, job[j].asset.id)
    /\ job' = [job EXCEPT ![j] =
                 [@ EXCEPT !.pc = "done", !.status = SKIPPED,
                           !.calls = Append(@, "upsertJobStatus")]]
    /\ UNCHANGED <<assets, machineLearning, uuidCount, assets0, concurrency, searchVars, queueVars, scope, albumVars>>

\* mutant: the search is not restricted to the owner of the asset
SearchDuplicatesOptionsAllUsers(asset, maxDistance) ==
    [assetId |-> asset.id, maxDistance |-> maxDistance,
     userIds |-> [u \in UserIds |-> u]]

\* { assetId: asset.id, maxDistance: machineLearning.clip.duplicateThreshold,
\*   userIds: [asset.ownerId] }
SearchDuplicatesOptions(asset, maxDistance) ==
    [assetId |-> asset.id, maxDistance |-> maxDistance, userIds |-> <<asset.ownerId>>]

\* await searchRepository.searchDuplicates(...), then the arguments of upsert
StepSearchDuplicates(j) ==
    /\ job[j].pc = "searchDuplicates"
    /\ LET options == SearchDuplicatesOptions(job[j].asset, job[j].maxDistance) IN
       \E duplicateAssets \in
            SearchDuplicates(assets, options.assetId, options.maxDistance,
                             Range(options.userIds)) :
         IF AfterSearch(duplicateAssets) = "upsert"
         THEN LET duplicateIds == FilterBoolean(duplicateAssets)
                  chosen == ChooseDuplicateId(duplicateIds, uuidCount)
              IN /\ job' = [job EXCEPT ![j] =
                              [@ EXCEPT !.pc = "upsert",
                                        !.duplicateAssets = duplicateAssets,
                                        !.duplicateIds = duplicateIds,
                                        !.duplicateId = chosen.duplicateId,
                                        !.usedUUID = chosen.usedUUID,
                                        !.duplicateAssetIds =
                                            DuplicateAssetIds(duplicateAssets, job[j].asset.id),
                                        !.searchOptions = options,
                                        !.calls = Append(@, "searchDuplicates")]]
                 /\ uuidCount' = IF chosen.usedUUID THEN uuidCount + 1 ELSE uuidCount
         ELSE /\ job' = [job EXCEPT ![j] =
                           [@ EXCEPT !.pc = "upsertJobStatus",
                                     !.duplicateAssets = duplicateAssets,
                                     !.searchOptions = options,
                                     !.calls = Append(@, "searchDuplicates")]]
              /\ UNCHANGED uuidCount
    /\ UNCHANGED <<assets, jobStatus, machineLearning, assets0, concurrency, searchVars, queueVars, scope, albumVars>>

\* await assetDuplicateRepository.upsert(duplicateId, duplicateAssetIds, duplicateIds)
StepUpsert(j) ==
    /\ job[j].pc = "upsert"
    /\ assets' = Upsert(assets, job[j].duplicateId, job[j].duplicateAssetIds,
                        job[j].duplicateIds)
    /\ job' = [job EXCEPT ![j] =
                 [@ EXCEPT !.pc = "upsertJobStatus", !.calls = Append(@, "upsert")]]
    /\ UNCHANGED <<jobStatus, machineLearning, uuidCount, assets0, concurrency, searchVars, queueVars, scope, albumVars>>

\* await assetRepository.upsertJobStatus(...), return SUCCESS
StepUpsertJobStatus(j) ==
    /\ job[j].pc = "upsertJobStatus"
    /\ jobStatus' = UpsertJobStatus(jobStatus, job[j].asset.id)
    /\ job' = [job EXCEPT ![j] =
                 [@ EXCEPT !.pc = "done", !.status = SUCCESS,
                           !.calls = Append(@, "upsertJobStatus")]]
    /\ UNCHANGED <<assets, machineLearning, uuidCount, assets0, concurrency, searchVars, queueVars, scope, albumVars>>

\* the awaited repository call rejects
Reject(j) ==
    /\ job[j].pc \in Awaiting
    /\ job' = [job EXCEPT ![j] =
                 [@ EXCEPT !.pc = OnReject(job[j].pc),
                           !.calls = Append(@, PendingCall(job[j].pc)),
                           !.searchOptions =
                               IF job[j].pc = "searchDuplicates"
                               THEN SearchDuplicatesOptions(job[j].asset, job[j].maxDistance)
                               ELSE @,
                           !.rejected = PendingCall(job[j].pc)]]
    /\ UNCHANGED <<assets, jobStatus, machineLearning, uuidCount, assets0, concurrency, searchVars, queueVars, scope, albumVars>>

\* =================================================== the request handlers
\* an optional field of a dto: absent, or present with a value
None == <<>>
Some(x) == <<x>>
\* JavaScript truthiness of an optional string and of an optional number
TruthyString(o) == o # None /\ o[1] # ""
TruthyNumber(o) == o # None /\ o[1] # 0

TEXT == "TEXT"
SMART == "SMART"

DefaultMetadataSize == 250
DefaultSmartSize == 100

\* Number.prototype.toString(): the decimal digits of a natural number
Digit(d) == <<"0", "1", "2", "3", "4", "5", "6", "7", "8", "9">>[d + 1]
RECURSIVE ToDecimalString(_)
ToDecimalString(n) == IF n < 10 THEN <<Digit(n)>> ELSE Append(ToDecimalString(n \div 10), Digit(n % 10))

\* mapAsset(asset): the response dto of an asset entity
MapAsset(asset) == [id |-> asset, type |-> "AssetResponseDto"]

\* configCore.requireFeature(flag): resolves when the feature is enabled
RequireFeature(flags, flag) == flags[flag]

\* mutant: the asset totals copied from the albums line
MapResponseZeroTotal(assetList, nextPage) ==
    [albums |-> [total |-> 0, count |-> 0, items |-> <<>>, facets |-> <<>>],
     assets |-> [total |-> 0, count |-> Len(assetList),
                 items |-> [i \in 1 .. Len(assetList) |-> MapAsset(assetList[i])],
                 facets |-> <<>>, nextPage |-> nextPage]]

\* mapResponse(assets, nextPage)
MapResponse(assetList, nextPage) ==
    [albums |-> [total |-> 0, count |-> 0, items |-> <<>>, facets |-> <<>>],
     assets |-> [total |-> Len(assetList), count |-> Len(assetList),
                 items |-> [i \in 1 .. Len(assetList) |-> MapAsset(assetList[i])],
                 facets |-> <<>>, nextPage |-> nextPage]]

\* mutant: the filter without its inTimeline test
RECURSIVE FilterPartnersSharedBy(_)
FilterPartnersSharedBy(partners) ==
    IF partners = <<>> THEN <<>>
    ELSE IF Head(partners).sharedBy
         THEN <<Head(partners).sharedById>> \o FilterPartnersSharedBy(Tail(partners))
         ELSE FilterPartnersSharedBy(Tail(partners))

RECURSIVE FilterPartners(_)
\* partners.filter((partner) => partner.sharedBy && partner.inTimeline)
\*         .map((partner) => partner.sharedById)
FilterPartners(partners) ==
    IF partners = <<>> THEN <<>>
    ELSE IF Head(partners).sharedBy /\ Head(partners).inTimeline
         THEN <<Head(partners).sharedById>> \o FilterPartners(Tail(partners))
         ELSE FilterPartners(Tail(partners))

\* getUserIdsToSearch(auth), given what partnerRepository.getAll returned
GetUserIdsToSearch(authUserId, partners) == <<authUserId>> \o FilterPartners(partners)

\* dto.page ?? 1
PageOf(dto) == IF dto.page = None THEN 1 ELSE dto.page[1]
\* mutant: ?? in place of ||, a size of 0 is kept
SizeOfNullish(dto, default) == IF dto.size = None THEN default ELSE dto.size[1]

\* dto.size || 250, dto.size || 100
SizeOf(dto, default) == IF TruthyNumber(dto.size) THEN dto.size[1] ELSE default

\* mutant: the current page reported as the next one
NextPageSame(page, hasNextPage) == IF hasNextPage THEN Some(ToDecimalString(page)) ELSE None

\* hasNextPage ? (page + 1).toString() : null
NextPage(page, hasNextPage) == IF hasNextPage THEN Some(ToDecimalString(page + 1)) ELSE None

\* const query = dto.q || dto.query
QueryOf(dto) == IF TruthyString(dto.q) THEN dto.q ELSE dto.query

\* mutant: dto.clip is ignored
StrategyOfSmartOnly(dto) == IF dto.smart THEN SMART ELSE TEXT

\* strategy = SMART if (dto.smart || dto.clip), TEXT otherwise
StrategyOf(dto) == IF dto.smart \/ dto.clip THEN SMART ELSE TEXT

\* mutant: the strategy is looked at before the query
AfterConfigStrategyFirst(op, dto) ==
    IF op = "searchSmart" THEN "getAll"
    ELSE IF StrategyOf(dto) = SMART THEN "requireSmart"
    ELSE IF ~TruthyString(QueryOf(dto)) THEN "missingQuery"
    ELSE "getAll"

\* what follows getConfig(): in search() the query check, then the strategy
AfterConfig(op, dto) ==
    IF op = "searchSmart" THEN "getAll"
    ELSE IF ~TruthyString(QueryOf(dto)) THEN "missingQuery"
    ELSE IF StrategyOf(dto) = SMART THEN "requireSmart"
    ELSE "getAll"

\* what follows getUserIdsToSearch(): in search(), switch (strategy)
AfterUserIds(op, strategy) ==
    CASE op = "searchMetadata" -> "searchMetadata"
      [] op = "searchSmart" -> "encodeText"
      [] op = "search" -> IF strategy = SMART THEN "encodeText"
                          ELSE "assetSearchMetadata"
      [] op = "getAssetsByCity" -> "getAssetsByCity"

\* mutant: searchSmart() without its feature check
FirstAwaitUnchecked(op) ==
    CASE op = "getExploreData" -> "requireSearch"
      [] op = "search" -> "requireSearch"
      [] op = "searchSmart" -> "getConfig"
      [] op = "searchMetadata" -> "getAll"
      [] op = "getAssetsByCity" -> "getAll"

\* the first await of each handler
FirstAwait(op) ==
    CASE op = "getExploreData" -> "requireSearch"
      [] op = "search" -> "requireSearch"
      [] op = "searchSmart" -> "requireSmart"
      [] op = "searchMetadata" -> "getAll"
      [] op = "getAssetsByCity" -> "getAll"

\* ----------------------------------------------------------------- inputs
Strings == {None, Some(""), Some("beach")}
Pages == {None, Some(0), Some(1), Some(MaxPage)}
Sizes == {None} \cup {Some(n) : n \in 0 .. MaxSize}
SearchDtos == [q : Strings, query : Strings, smart : BOOLEAN, clip : BOOLEAN,
               page : Pages, size : Sizes]
MetadataSearchDtos == [page : Pages, size : Sizes]
SmartSearchDtos == [query : {Some("beach")}, page : Pages, size : Sizes]
NoDto == [page |-> None, size |-> None]

\* what partnerRepository.getAll may return
SeqsUpTo(S, n) == UNION {[1 .. k -> S] : k \in 0 .. n}
PartnerLists ==
    SeqsUpTo([sharedById : UserIds, sharedBy : BOOLEAN, inTimeline : BOOLEAN], MaxPartners)
\* what a search may return: distinct assets in some order
ItemLists == UNION {Orderings(S) : S \in {T \in SUBSET AssetIds : Cardinality(T) <= MaxItems}}

\* ------------------------------------------------------------------ steps
IdleReq ==
    [op |-> "none", pc |-> "idle", authUserId |-> Null, dto |-> NoDto, calls |-> <<>>,
     strategy |-> TEXT, userIds |-> <<>>, text |-> None,
     pagination |-> [page |-> 0, size |-> 0], repo |-> [hasNextPage |-> FALSE, items |-> <<>>],
     error |-> "none", response |-> MapResponse(<<>>, None), explore |-> <<>>,
     byIds |-> <<>>, exploreResponse |-> <<>>, assetList |-> <<>>]

\* a request arrives at one of the handlers
Call(op, authUserId, dto) ==
    /\ req' = [req EXCEPT !.op = op, !.pc = FirstAwait(op), !.authUserId = authUserId,
                          !.dto = dto]
    /\ UNCHANGED <<jobVars, featureFlags, queueVars, scope, albumVars>>

\* await this.configCore.requireFeature(FeatureFlag.SEARCH)
StepRequireSearch ==
    /\ req.pc = "requireSearch"
    /\ req' = [req EXCEPT
                 !.calls = Append(@, "requireFeature(SEARCH)"),
                 !.pc = IF ~RequireFeature(featureFlags, "search") THEN "thrown"
                        ELSE IF req.op = "getExploreData" THEN "exploreFields"
                        ELSE "getConfig",
                 !.error = IF ~RequireFeature(featureFlags, "search")
                           THEN "feature disabled" ELSE @]
    /\ UNCHANGED <<jobVars, featureFlags, queueVars, scope, albumVars>>

\* await this.configCore.getConfig(), then the code up to the next await
StepGetConfig ==
    /\ req.pc = "getConfig"
    /\ LET next == AfterConfig(req.op, req.dto) IN
       req' = [req EXCEPT
                 !.calls = Append(@, "getConfig"),
                 !.pc = IF next = "missingQuery" THEN "thrown" ELSE next,
                 !.error = IF next = "missingQuery" THEN "Missing query" ELSE @]
    /\ UNCHANGED <<jobVars, featureFlags, queueVars, scope, albumVars>>

\* await this.configCore.requireFeature(FeatureFlag.SMART_SEARCH)
StepRequireSmart ==
    /\ req.pc = "requireSmart"
    /\ req' = [req EXCEPT
                 !.calls = Append(@, "requireFeature(SMART_SEARCH)"),
                 !.pc = IF ~RequireFeature(featureFlags, "smartSearch") THEN "thrown"
                        ELSE IF req.op = "searchSmart" THEN "getConfig"
                        ELSE "getAll",
                 !.strategy = IF RequireFeature(featureFlags, "smartSearch") /\ req.op = "search"
                              THEN SMART ELSE @,
                 !.error = IF ~RequireFeature(featureFlags, "smartSearch")
                           THEN "feature disabled" ELSE @]
    /\ UNCHANGED <<jobVars, featureFlags, queueVars, scope, albumVars>>

\* getUserIdsToSearch(auth): await this.partnerRepository.getAll(auth.user.id),
\* then page and size
StepGetUserIds ==
    /\ req.pc = "getAll"
    /\ \E partners \in PartnerLists :
         req' = [req EXCEPT
                   !.calls = Append(@, "partnerRepository.getAll"),
                   !.userIds = GetUserIdsToSearch(req.authUserId, partners),
                   !.pc = AfterUserIds(req.op, req.strategy)]
    /\ UNCHANGED <<jobVars, featureFlags, queueVars, scope, albumVars>>

\* await this.machineLearning.encodeText(url, { text }, clip)
StepEncodeText ==
    /\ req.pc = "encodeText"
    /\ req' = [req EXCEPT
                 !.calls = Append(@, "machineLearning.encodeText"),
                 !.text = IF req.op = "search" THEN QueryOf(req.dto) ELSE req.dto.query,
                 !.pc = "searchSmart"]
    /\ UNCHANGED <<jobVars, featureFlags, queueVars, scope, albumVars>>

\* await this.searchRepository.searchSmart({ page, size }, ...), then mapResponse
StepSearchSmart ==
    /\ req.pc = "searchSmart"
    /\ \E items \in ItemLists, hasNextPage \in BOOLEAN :
         LET page == PageOf(req.dto) IN
         req' = [req EXCEPT
                   !.calls = Append(@, "searchRepository.searchSmart"),
                   !.pagination = [page |-> page, size |-> SizeOf(req.dto, DefaultSmartSize)],
                   !.repo = [hasNextPage |-> hasNextPage, items |-> items],
                   !.response = MapResponse(items, NextPage(page, hasNextPage)),
                   !.pc = "done"]
    /\ UNCHANGED <<jobVars, featureFlags, queueVars, scope, albumVars>>

\* searchMetadata(): await this.searchRepository.searchMetadata({ page, size }, ...)
StepSearchMetadata ==
    /\ req.pc = "searchMetadata"
    /\ \E items \in ItemLists, hasNextPage \in BOOLEAN :
         LET page == PageOf(req.dto) IN
         req' = [req EXCEPT
                   !.calls = Append(@, "searchRepository.searchMetadata"),
                   !.pagination = [page |-> page, size |-> SizeOf(req.dto, DefaultMetadataSize)],
                   !.repo = [hasNextPage |-> hasNextPage, items |-> items],
                   !.response = MapResponse(items, NextPage(page, hasNextPage)),
                   !.pc = "done"]
    /\ UNCHANGED <<jobVars, featureFlags, queueVars, scope, albumVars>>

\* search(), TEXT: await this.assetRepository.searchMetadata(query, userIds, { numResults })
StepAssetSearchMetadata ==
    /\ req.pc = "assetSearchMetadata"
    /\ \E items \in ItemLists :
         req' = [req EXCEPT
                   !.calls = Append(@, "assetRepository.searchMetadata"),
                   !.text = QueryOf(req.dto),
                   !.pagination = [page |-> PageOf(req.dto),
                                   size |-> SizeOf(req.dto, DefaultMetadataSize)],
                   !.repo = [hasNextPage |-> FALSE, items |-> items],
                   !.response = MapResponse(items, None),
                   !.pc = "done"]
    /\ UNCHANGED <<jobVars, featureFlags, queueVars, scope, albumVars>>

\* getExploreData(): await Promise.all([getAssetIdByCity(...), getAssetIdByTag(...)])
ExploreField(fieldName, ids) ==
    [fieldName |-> fieldName,
     items |-> [i \in 1 .. Len(ids) |-> [value |-> <<fieldName, i>>, data |-> ids[i]]]]
StepExploreFields ==
    /\ req.pc = "exploreFields"
    /\ \E cities \in ItemLists, tags \in ItemLists :
         req' = [req EXCEPT
                   !.calls = @ \o <<"assetRepository.getAssetIdByCity",
                                    "assetRepository.getAssetIdByTag">>,
                   !.explore = <<ExploreField("exifInfo.city", cities),
                                 ExploreField("smartInfo.tags", tags)>>,
                   !.pc = "getByIds"]
    /\ UNCHANGED <<jobVars, featureFlags, queueVars, scope, albumVars>>

\* new Set(results.flatMap((field) => field.items.map((item) => item.data)))
ExploreAssetIds(results) ==
    UNION {{results[f].items[i].data : i \in 1 .. Len(results[f].items)} :
              f \in 1 .. Len(results)}

\* what Map.get answers for a key the map does not have
Undefined == [type |-> "undefined"]
\* assetMap.get(data)
MapGet(assetMap, key) == IF key \in DOMAIN assetMap THEN assetMap[key] ELSE Undefined

\* results.map(({ fieldName, items }) => ({ fieldName, items: items.map(
\*   ({ value, data }) => ({ value, data: assetMap.get(data) })) }))
ExploreResponse(results, assetMap) ==
    [f \in 1 .. Len(results) |->
        [fieldName |-> results[f].fieldName,
         items |-> [i \in 1 .. Len(results[f].items) |->
                       [value |-> results[f].items[i].value,
                        data |-> MapGet(assetMap, results[f].items[i].data)]]]]

\* [...assetIds]: a Set iterates in insertion order, the order of first occurrence
\* in results.flatMap(...)
RECURSIVE Dedupe(_)
Dedupe(s) ==
    IF s = <<>> THEN <<>>
    ELSE LET rest == Dedupe(SubSeq(s, 1, Len(s) - 1)) IN
         IF s[Len(s)] \in Range(rest) THEN rest ELSE Append(rest, s[Len(s)])
RECURSIVE FlatMapData(_)
FlatMapData(results) ==
    IF results = <<>> THEN <<>>
    ELSE [i \in 1 .. Len(Head(results).items) |-> Head(results).items[i].data]
            \o FlatMapData(Tail(results))
ExploreIdList(results) == Dedupe(FlatMapData(results))

\* await this.assetRepository.getByIdsWithAllRelations([...assetIds]), then the maps;
\* the repository returns the assets it finds among the requested ids, all of
\* them or fewer, in an order of its own
StepGetByIds ==
    /\ req.pc = "getByIds"
    /\ \E present \in SUBSET ExploreAssetIds(req.explore) :
       \E found \in Orderings(present) :
         LET assetMap == [a \in Range(found) |-> MapAsset(a)] IN
         req' = [req EXCEPT
                   !.calls = Append(@, "assetRepository.getByIdsWithAllRelations"),
                   !.byIds = ExploreIdList(req.explore),
                   !.exploreResponse = ExploreResponse(req.explore, assetMap),
                   !.pc = "done"]
    /\ UNCHANGED <<jobVars, featureFlags, queueVars, scope, albumVars>>

\* getAssetsByCity(): await this.searchRepository.getAssetsByCity(userIds), then
\* assets.map((asset) => mapAsset(asset))
StepGetAssetsByCity ==
    /\ req.pc = "getAssetsByCity"
    /\ \E items \in ItemLists :
         req' = [req EXCEPT
                   !.calls = Append(@, "searchRepository.getAssetsByCity"),
                   !.repo = [hasNextPage |-> FALSE, items |-> items],
                   !.assetList = [i \in 1 .. Len(items) |-> MapAsset(items[i])],
                   !.pc = "done"]
    /\ UNCHANGED <<jobVars, featureFlags, queueVars, scope, albumVars>>

\* ------------------------------------------------- handleQueueSearchDuplicates
\* the page size of the job handlers, scaled down
JOBS_ASSET_PAGINATION_SIZE == 2
DUPLICATE_DETECTION == "duplicate-detection"

\* the ids of a set of rows in the order the repository returns them
SortedIds(S) ==
    [i \in 1 .. Cardinality(S) |->
        CHOOSE x \in S : Cardinality({y \in S : y <= x}) = i]
\* paginate(repository, { take, skip }, ...)
Paginate(rows, pagination) ==
    LET last == IF pagination.skip + pagination.take < Len(rows)
                THEN pagination.skip + pagination.take ELSE Len(rows)
    IN [items |-> SubSeq(rows, pagination.skip + 1, last),
        hasNextPage |-> Len(rows) > pagination.skip + pagination.take]
\* assetRepository.getAll(pagination, { isVisible: true })
GetAll(tbl, pagination) ==
    Paginate(SortedIds({a \in AssetIds : tbl[a].isVisible}), pagination)
\* assetRepository.getWithout(pagination, WithoutProperty.DUPLICATE): visible
\* assets with a preview and without duplicatesDetectedAt
GetWithout(tbl, st, pagination) ==
    Paginate(SortedIds({a \in AssetIds : /\ tbl[a].isVisible
                                         /\ HasPath(tbl[a].resizePath)
                                         /\ ~st[a]}), pagination)

\* mutant: the clip switch is not looked at
QueueEnabledMachineLearningOnly(ml) == ml.enabled

\* !(!machineLearning.enabled || !machineLearning.clip.enabled)
QueueEnabled(ml) == ml.enabled /\ ml.clip.enabled

\* mutant: the two branches of the conditional exchanged
PageSourceInverted(force) ==
    IF force THEN "assetRepository.getWithout" ELSE "assetRepository.getAll"

\* force ? assetRepository.getAll(...) : assetRepository.getWithout(...)
PageSource(force) ==
    IF force THEN "assetRepository.getAll" ELSE "assetRepository.getWithout"

\* assets.map((asset) => ({ name: JobName.DUPLICATE_DETECTION, data: { id: asset.id } }))
QueueJobs(page) ==
    [i \in 1 .. Len(page) |-> [name |-> DUPLICATE_DETECTION, data |-> [id |-> page[i]]]]

IdleQueueRun ==
    [pc |-> "idle", force |-> FALSE, skip |-> 0, hasNextPage |-> TRUE, page |-> <<>>,
     yielded |-> <<>>, status |-> "none", calls |-> <<>>]

\* the handler is called and reads the configuration
QueueStart(force) ==
    /\ queueRun.pc = "idle"
    /\ queueRun' = [queueRun EXCEPT
                      !.force = force,
                      !.calls = Append(@, "getConfig"),
                      !.pc = IF QueueEnabled(machineLearning) THEN "nextPage" ELSE "done",
                      !.status = IF QueueEnabled(machineLearning) THEN "none" ELSE SKIPPED]
    /\ UNCHANGED <<jobVars, searchVars, queue, scope, albumVars>>

\* usePagination: const result = await getNextPage({ take: pageSize, skip });
\* hasNextPage = result.hasNextPage; yield result.items
StepNextPage ==
    /\ queueRun.pc = "nextPage"
    /\ LET pagination == [take |-> JOBS_ASSET_PAGINATION_SIZE, skip |-> queueRun.skip]
           source == PageSource(queueRun.force)
           result == IF source = "assetRepository.getAll"
                     THEN GetAll(assets, pagination)
                     ELSE GetWithout(assets, jobStatus, pagination)
       IN queueRun' = [queueRun EXCEPT
                         !.calls = Append(@, source),
                         !.hasNextPage = result.hasNextPage,
                         !.page = result.items,
                         !.yielded = Append(@, result.items),
                         !.pc = "queueAll"]
    /\ UNCHANGED <<jobVars, searchVars, queue, scope, albumVars>>

\* await this.jobRepository.queueAll(...), then the loop: skip += pageSize while
\* hasNextPage, return JobStatus.SUCCESS after the last page
StepQueueAll ==
    /\ queueRun.pc = "queueAll"
    /\ queue' = queue \o QueueJobs(queueRun.page)
    /\ queueRun' = [queueRun EXCEPT
                      !.calls = Append(@, "jobRepository.queueAll"),
                      !.skip = IF queueRun.hasNextPage
                               THEN @ + JOBS_ASSET_PAGINATION_SIZE ELSE @,
                      !.pc = IF queueRun.hasNextPage THEN "nextPage" ELSE "done",
                      !.status = IF queueRun.hasNextPage THEN @ ELSE SUCCESS]
    /\ UNCHANGED <<jobVars, searchVars, scope, albumVars>>

\* ------------------------------------------------------------- the pipeline
\* an administrator saves a configuration with other machine learning switches;
\* getConfig() returns the saved configuration from then on
SetConfig(enabled, clipEnabled) ==
    /\ <<enabled, clipEnabled>> # <<machineLearning.enabled, machineLearning.clip.enabled>>
    /\ machineLearning' = [machineLearning EXCEPT !.enabled = enabled,
                                                  !.clip.enabled = clipEnabled]
    /\ UNCHANGED <<assets, jobStatus, uuidCount, job, assets0, concurrency,
                   searchVars, queueVars, scope, albumVars>>

\* worker j takes the j-th job that handleQueueSearchDuplicates queued
StartQueued(j) ==
    /\ Len(queue) >= j
    /\ queue[j].name = DUPLICATE_DETECTION
    /\ Start(j, queue[j].data.id)

\* ------------------------------------------------------- getUserIdsToSearch
IdleScope == [pc |-> "idle", authUserId |-> Null, partners |-> <<>>, userIds |-> <<>>]

\* getUserIdsToSearch(auth) with what partnerRepository.getAll returned
GetUserIds(authUserId, partners) ==
    /\ scope.pc = "idle"
    /\ scope' = [pc |-> "done", authUserId |-> authUserId, partners |-> partners,
                 userIds |-> GetUserIdsToSearch(authUserId, partners)]
    /\ UNCHANGED <<jobVars, searchVars, queueVars, albumVars>>

\* ========================================================= AlbumRepository
\* The statements of the AlbumRepository over the tables albums, assets,
\* albums_assets_assets, albums_shared_users_users and shared_links.  A
\* deletedAt is Null or a time; the LEFT JOINs on users load the owner and the
\* shared users and take part in no WHERE clause, so users is not a table here.
AlbumIds == 1 .. NumAlbums
AlbumAssetIds == 1 .. NumAlbumAssets
LinkIds == 1 .. MaxLinks
Deleted == 1

EmptyAlbumDb ==
    [albums |-> [a \in AlbumIds |->
                    [ownerId |-> 1, deletedAt |-> Null, albumThumbnailAssetId |-> Null,
                     createdAt |-> a, updatedAt |-> 0]],
     assets |-> [x \in AlbumAssetIds |-> [deletedAt |-> Null, fileCreatedAt |-> x]],
     albums_assets_assets |-> {},
     albums_shared_users_users |-> {},
     shared_links |-> {},
     now |-> 1]
\* writes counts the statements that wrote to the tables so far
IdleAlbumCall ==
    [op |-> "none", args |-> <<>>, result |-> {}, before |-> <<>>, writes |-> 0]

\* the row a LEFT JOIN yields for a left row without a match
NullAlbumAsset == [albumsId |-> Null, assetsId |-> Null]
NullAlbumUser == [albumsId |-> Null, usersId |-> Null]
NullSharedLink == [id |-> Null, albumId |-> Null, userId |-> Null]
NullAssetRow == [id |-> Null, deletedAt |-> Null, fileCreatedAt |-> Null]
LeftJoin(matches, nullRow) == IF matches = {} THEN {nullRow} ELSE matches

\* LEFT JOIN "albums_shared_users_users" ON albumsId = "AlbumEntity"."id"
AlbumUsersOf(db, a) ==
    LeftJoin({r \in db.albums_shared_users_users : r.albumsId = a}, NullAlbumUser)
\* LEFT JOIN "shared_links" ON albumId = "AlbumEntity"."id"
SharedLinksOf(db, a) ==
    LeftJoin({r \in db.shared_links : r.albumId = a}, NullSharedLink)
\* LEFT JOIN "albums_assets_assets" ON albumsId = id, then
\* LEFT JOIN "assets" ON "assets"."id" = assetsId AND "assets"."deletedAt" IS NULL
AlbumAssetsOf(db, a) ==
    {IF r.assetsId # Null /\ db.assets[r.assetsId].deletedAt = Null
     THEN [id |-> r.assetsId, deletedAt |-> Null,
           fileCreatedAt |-> db.assets[r.assetsId].fileCreatedAt]
     ELSE NullAssetRow :
        r \in LeftJoin({r \in db.albums_assets_assets : r.albumsId = a}, NullAlbumAsset)}

\* ORDER BY "AlbumEntity"."createdAt" DESC
OrderByCreatedAtDesc(db, S) ==
    [i \in 1 .. Cardinality(S) |->
        CHOOSE a \in S :
            Cardinality({b \in S : db.albums[b].createdAt >= db.albums[a].createdAt}) = i]

\* AlbumRepository.getById: WHERE id = $1 AND deletedAt IS NULL ... LIMIT 1
AlbumGetById(db, id) ==
    {a \in AlbumIds : a = id /\ db.albums[a].deletedAt = Null}
\* AlbumRepository.getByIds: WHERE id IN ($1) AND deletedAt IS NULL
AlbumGetByIds(db, ids) ==
    {a \in AlbumIds : a \in ids /\ db.albums[a].deletedAt = Null}
\* AlbumRepository.getByAssetId: WHERE (ownerId = $1 AND assets.id = $2
\*   OR albumUsers.usersId = $3 AND assets.id = $4) AND deletedAt IS NULL
GetByAssetId(db, ownerId, assetId) ==
    OrderByCreatedAtDesc(db,
        {a \in AlbumIds :
            /\ \E u \in AlbumUsersOf(db, a), x \in AlbumAssetsOf(db, a) :
                  \/ db.albums[a].ownerId = ownerId /\ x.id = assetId
                  \/ u.usersId = ownerId /\ x.id = assetId
            /\ db.albums[a].deletedAt = Null})
\* AlbumRepository.getMetadataForIds: MIN, MAX and COUNT over the joined assets,
\* GROUP BY "album"."id"
MinTime(S) == IF S = {} THEN Null ELSE CHOOSE t \in S : \A o \in S : t <= o
MaxTime(S) == IF S = {} THEN Null ELSE CHOOSE t \in S : \A o \in S : t >= o
GetMetadataForIds(db, ids) ==
    {LET rows == {x \in AlbumAssetsOf(db, a) : x.id # Null} IN
     [albumId |-> a,
      startDate |-> MinTime({x.fileCreatedAt : x \in rows}),
      endDate |-> MaxTime({x.fileCreatedAt : x \in rows}),
      assetCount |-> Cardinality(rows)] :
        a \in {b \in AlbumIds : b \in ids /\ db.albums[b].deletedAt = Null}}

\* the condition getInvalidThumbnail and updateThumbnails share:
\* albumThumbnailAssetId IS NULL AND EXISTS (album asset)
\* OR albumThumbnailAssetId IS NOT NULL AND NOT EXISTS (album asset = thumbnail)
InvalidThumbnail(db, a) ==
    \/ /\ db.albums[a].albumThumbnailAssetId = Null
       /\ \E r \in db.albums_assets_assets : a = r.albumsId
    \/ /\ db.albums[a].albumThumbnailAssetId # Null
       /\ ~\E r \in db.albums_assets_assets :
              a = r.albumsId /\ db.albums[a].albumThumbnailAssetId = r.assetsId
\* AlbumRepository.getInvalidThumbnail: (...) AND "albums"."deletedAt" IS NULL
GetInvalidThumbnail(db) ==
    {a \in AlbumIds : InvalidThumbnail(db, a) /\ db.albums[a].deletedAt = Null}

\* AlbumRepository.getOwned: WHERE ownerId = $1 AND deletedAt IS NULL
GetOwned(db, ownerId) ==
    OrderByCreatedAtDesc(db,
        {a \in AlbumIds : db.albums[a].ownerId = ownerId /\ db.albums[a].deletedAt = Null})

\* mutant: without the disjunct for the owner's own albums
GetSharedWithMe(db, ownerId) ==
    OrderByCreatedAtDesc(db,
        {a \in AlbumIds :
            /\ \E u \in AlbumUsersOf(db, a), l \in SharedLinksOf(db, a) :
                  \/ u.usersId = ownerId
                  \/ l.userId = ownerId
            /\ db.albums[a].deletedAt = Null})

\* AlbumRepository.getShared: WHERE (albumUsers.usersId = $1 OR
\*   sharedLinks.userId = $2 OR ownerId = $3 AND NOT (albumUsers.usersId IS NULL))
\*   AND deletedAt IS NULL
GetShared(db, ownerId) ==
    OrderByCreatedAtDesc(db,
        {a \in AlbumIds :
            /\ \E u \in AlbumUsersOf(db, a), l \in SharedLinksOf(db, a) :
                  \/ u.usersId = ownerId
                  \/ l.userId = ownerId
                  \/ db.albums[a].ownerId = ownerId /\ ~(u.usersId = Null)
            /\ db.albums[a].deletedAt = Null})

\* AlbumRepository.getNotShared: WHERE (ownerId = $1 AND albumUsers.usersId IS NULL
\*   AND sharedLinks.id IS NULL) AND deletedAt IS NULL
GetNotShared(db, ownerId) ==
    OrderByCreatedAtDesc(db,
        {a \in AlbumIds :
            /\ \E u \in AlbumUsersOf(db, a), l \in SharedLinksOf(db, a) :
                  /\ db.albums[a].ownerId = ownerId
                  /\ u.usersId = Null
                  /\ l.id = Null
            /\ db.albums[a].deletedAt = Null})

\* mutant: without the deletedAt condition
AlbumGetAllWithDeleted(db) == {a \in AlbumIds : TRUE}

\* AlbumRepository.getAll: WHERE "AlbumEntity"."deletedAt" IS NULL
AlbumGetAll(db) == {a \in AlbumIds : db.albums[a].deletedAt = Null}

\* AlbumRepository.hasAsset: EXISTS (... WHERE id = $1 AND assets.id = $2
\*   AND deletedAt IS NULL)
HasAsset(db, albumId, assetId) ==
    \E a \in AlbumIds :
        /\ \E x \in AlbumAssetsOf(db, a) : a = albumId /\ x.id = assetId
        /\ db.albums[a].deletedAt = Null

\* the subquery of updateThumbnails: the album assets that are not deleted,
\* ORDER BY "assets"."fileCreatedAt" DESC LIMIT 1; Null when there is none, any
\* of the latest when several share the latest time
ThumbnailCandidates(db, a) ==
    LET rows == {r \in db.albums_assets_assets :
                    r.albumsId = a /\ db.assets[r.assetsId].deletedAt = Null}
        first == {r \in rows : \A o \in rows :
                    db.assets[r.assetsId].fileCreatedAt >= db.assets[o.assetsId].fileCreatedAt}
    IN IF rows = {} THEN {Null} ELSE {r.assetsId : r \in first}

\* AlbumRepository.getAssetIds: WHERE albumsId = $1 AND assetsId IN ($2)
GetAssetIds(db, albumId, assetIds) ==
    {r.assetsId : r \in {q \in db.albums_assets_assets :
                            q.albumsId = albumId /\ q.assetsId \in assetIds}}
\* AlbumRepository.getAssetIds (no assets): WHERE albumsId = $1
GetAssetIdsNoAssets(db, albumId) ==
    {r.assetsId : r \in {q \in db.albums_assets_assets : q.albumsId = albumId}}

\* the repository answers one call at a time; before is the albums table the
\* statement ran on
AlbumCall(op, args, result) ==
    [op |-> op, args |-> args, result |-> result, before |-> albumDb.albums,
     writes |-> albumCall.writes]
\* a call of a statement that writes; a run has MaxWrites of them at most
AlbumWrite(op, args, result) ==
    [AlbumCall(op, args, result) EXCEPT !.writes = @ + 1]

\* AlbumRepository.removeAsset: DELETE ... WHERE assetsId = $1
RemoveAsset(assetId) ==
    /\ albumCall.op = "none"
    /\ albumCall.writes < MaxWrites
    /\ albumDb' = [albumDb EXCEPT
                     !.albums_assets_assets = {r \in @ : ~(r.assetsId = assetId)}]
    /\ albumCall' = AlbumWrite("removeAsset", <<assetId>>, {})
    /\ UNCHANGED <<jobVars, searchVars, queueVars, scope>>
\* AlbumRepository.removeAssetIds: DELETE ... WHERE albumsId = $1 AND assetsId IN ($2)
RemoveAssetIds(albumId, assetIds) ==
    /\ albumCall.op = "none"
    /\ albumCall.writes < MaxWrites
    /\ albumDb' = [albumDb EXCEPT
                     !.albums_assets_assets =
                        {r \in @ : ~(r.albumsId = albumId /\ r.assetsId \in assetIds)}]
    /\ albumCall' = AlbumWrite("removeAssetIds", <<albumId, assetIds>>, {})
    /\ UNCHANGED <<jobVars, searchVars, queueVars, scope>>
\* AlbumRepository.addAssetIds: INSERT ... VALUES ($1, $2), without ON CONFLICT.
\* The two columns are the key of the table: a pair that is in it already is
\* rejected, the call throws and nothing is written.
AddAssetIds(albumId, assetId) ==
    LET row == [albumsId |-> albumId, assetsId |-> assetId] IN
    /\ albumCall.op = "none"
    /\ IF row \in albumDb.albums_assets_assets
       THEN /\ albumCall' = AlbumCall("addAssetIds", <<albumId, assetId>>, "rejected")
            /\ UNCHANGED albumDb
       ELSE /\ albumCall.writes < MaxWrites
            /\ albumDb' = [albumDb EXCEPT !.albums_assets_assets = @ \cup {row}]
            /\ albumCall' = AlbumWrite("addAssetIds", <<albumId, assetId>>, {})
    /\ UNCHANGED <<jobVars, searchVars, queueVars, scope>>

\* AlbumRepository.updateThumbnails: one UPDATE of every row that satisfies the
\* condition, whatever its deletedAt
UpdateThumbnails ==
    /\ albumCall.op = "none"
    /\ albumCall.writes < MaxWrites
    /\ \E pick \in [AlbumIds -> AlbumAssetIds \cup {Null}] :
         /\ \A a \in AlbumIds : pick[a] \in ThumbnailCandidates(albumDb, a)
         /\ albumDb' =
              [albumDb EXCEPT
                 !.albums = [a \in AlbumIds |->
                               IF InvalidThumbnail(albumDb, a)
                               THEN [albumDb.albums[a] EXCEPT
                                       !.albumThumbnailAssetId = pick[a],
                                       !.updatedAt = albumDb.now]
                               ELSE albumDb.albums[a]],
                 !.now = @ + 1]
         /\ albumCall' = AlbumWrite("updateThumbnails", <<>>,
                                   {a \in AlbumIds : InvalidThumbnail(albumDb, a)})
    /\ UNCHANGED <<jobVars, searchVars, queueVars, scope>>

\* the caller has the answer
AlbumReturn ==
    /\ albumCall.op # "none"
    /\ albumCall' = [IdleAlbumCall EXCEPT !.writes = albumCall.writes]
    /\ UNCHANGED <<jobVars, searchVars, queueVars, scope, albumDb>>

\* the calls of the repository's queries: the tables stay as they are
CallGetById(id) ==
    /\ albumCall.op = "none"
    /\ albumCall' = AlbumCall("getById", <<id>>, AlbumGetById(albumDb, id))
    /\ UNCHANGED <<jobVars, searchVars, queueVars, scope, albumDb>>
CallGetByIds(ids) ==
    /\ albumCall.op = "none"
    /\ albumCall' = AlbumCall("getByIds", <<ids>>, AlbumGetByIds(albumDb, ids))
    /\ UNCHANGED <<jobVars, searchVars, queueVars, scope, albumDb>>
CallGetByAssetId(ownerId, assetId) ==
    /\ albumCall.op = "none"
    /\ albumCall' = AlbumCall("getByAssetId", <<ownerId, assetId>>,
                            GetByAssetId(albumDb, ownerId, assetId))
    /\ UNCHANGED <<jobVars, searchVars, queueVars, scope, albumDb>>
CallGetMetadataForIds(ids) ==
    /\ albumCall.op = "none"
    /\ albumCall' = AlbumCall("getMetadataForIds", <<ids>>,
                            GetMetadataForIds(albumDb, ids))
    /\ UNCHANGED <<jobVars, searchVars, queueVars, scope, albumDb>>
CallGetInvalidThumbnail ==
    /\ albumCall.op = "none"
    /\ albumCall' = AlbumCall("getInvalidThumbnail", <<>>, GetInvalidThumbnail(albumDb))
    /\ UNCHANGED <<jobVars, searchVars, queueVars, scope, albumDb>>
CallGetOwned(ownerId) ==
    /\ albumCall.op = "none"
    /\ albumCall' = AlbumCall("getOwned", <<ownerId>>, GetOwned(albumDb, ownerId))
    /\ UNCHANGED <<jobVars, searchVars, queueVars, scope, albumDb>>
CallGetShared(ownerId) ==
    /\ albumCall.op = "none"
    /\ albumCall' = AlbumCall("getShared", <<ownerId>>, GetShared(albumDb, ownerId))
    /\ UNCHANGED <<jobVars, searchVars, queueVars, scope, albumDb>>
CallGetNotShared(ownerId) ==
    /\ albumCall.op = "none"
    /\ albumCall' = AlbumCall("getNotShared", <<ownerId>>, GetNotShared(albumDb, ownerId))
    /\ UNCHANGED <<jobVars, searchVars, queueVars, scope, albumDb>>
CallGetAll ==
    /\ albumCall.op = "none"
    /\ albumCall' = AlbumCall("getAll", <<>>, AlbumGetAll(albumDb))
    /\ UNCHANGED <<jobVars, searchVars, queueVars, scope, albumDb>>
CallGetAssetIds(albumId, assetIds) ==
    /\ albumCall.op = "none"
    /\ albumCall' = AlbumCall("getAssetIds", <<albumId, assetIds>>,
                            GetAssetIds(albumDb, albumId, assetIds))
    /\ UNCHANGED <<jobVars, searchVars, queueVars, scope, albumDb>>
CallGetAssetIdsNoAssets(albumId) ==
    /\ albumCall.op = "none"
    /\ albumCall' = AlbumCall("getAssetIds", <<albumId>>,
                            GetAssetIdsNoAssets(albumDb, albumId))
    /\ UNCHANGED <<jobVars, searchVars, queueVars, scope, albumDb>>
CallHasAsset(albumId, assetId) ==
    /\ albumCall.op = "none"
    /\ albumCall' = AlbumCall("hasAsset", <<albumId, assetId>>,
                            HasAsset(albumDb, albumId, assetId))
    /\ UNCHANGED <<jobVars, searchVars, queueVars, scope, albumDb>>

\* ------------------------------------------------------------ specification
\* The asset tables the jobs start from.  The handler reads isVisible and
\* resizePath of the processed asset only, so one asset at most is hidden and
\* one at most lacks a preview; one at most belongs to another user, and two at
\* most already carry a duplicate id.
Opt(S) == S \cup {Null}
InitAssets ==
    {[a \in AssetIds |->
        [ownerId |-> IF a = foreign THEN other ELSE 1,
         isVisible |-> a # hidden,
         resizePath |-> IF a = noPreview THEN NoPath ELSE "thumbs/preview.jpeg",
         duplicateId |-> dup[a]]] :
        hidden \in Opt(AssetIds), noPreview \in Opt(AssetIds),
        foreign \in Opt(AssetIds), other \in UserIds \ {1},
        dup \in {d \in [AssetIds -> Opt(GroupIds)] :
                    Cardinality({a \in AssetIds : d[a] # Null}) <= 2}}

InitJobs(n) ==
    /\ assets0 \in InitAssets
    /\ assets = assets0
    /\ jobStatus = [a \in AssetIds |-> FALSE]
    /\ machineLearning \in [enabled : {TRUE},
                            clip : [enabled : {TRUE},
                                    duplicateThreshold : 0 .. MaxThreshold]]
    /\ uuidCount = 0
    /\ job = [j \in Jobs |-> IdleJob]
    /\ concurrency = n
    /\ featureFlags = [search |-> TRUE, smartSearch |-> TRUE]
    /\ req = IdleReq
    /\ queueRun = IdleQueueRun
    /\ queue = <<>>
    /\ scope = IdleScope
    /\ albumDb = EmptyAlbumDb
    /\ albumCall = IdleAlbumCall

NextJobs ==
    \/ \E j \in Jobs, id \in JobIds : Start(j, id)
    \/ \E j \in Jobs : StepGetById(j)
    \/ \E j \in Jobs : StepSkipJobStatus(j)
    \/ \E j \in Jobs : StepSearchDuplicates(j)
    \/ \E j \in Jobs : StepUpsert(j)
    \/ \E j \in Jobs : StepUpsertJobStatus(j)
    \/ \E j \in Jobs : Reject(j)

\* one invocation of handleSearchDuplicates
Init == InitJobs(1)
Next == NextJobs
Spec == Init /\ [][Next]_vars

\* MaxJobs invocations on MaxJobs workers, interleaved at their awaits
InitConcurrent == InitJobs(MaxJobs)
SpecConcurrent == InitConcurrent /\ [][NextJobs]_vars

\* one request to getExploreData, searchMetadata, searchSmart or search
InitSearch ==
    /\ assets0 = [a \in AssetIds |->
                    [ownerId |-> 1, isVisible |-> TRUE,
                     resizePath |-> "thumbs/preview.jpeg", duplicateId |-> Null]]
    /\ assets = assets0
    /\ jobStatus = [a \in AssetIds |-> FALSE]
    /\ machineLearning = [enabled |-> TRUE,
                          clip |-> [enabled |-> TRUE, duplicateThreshold |-> 0]]
    /\ uuidCount = 0
    /\ job = [j \in Jobs |-> IdleJob]
    /\ concurrency = 0
    /\ featureFlags \in [search : BOOLEAN, smartSearch : BOOLEAN]
    /\ req = IdleReq
    /\ queueRun = IdleQueueRun
    /\ queue = <<>>
    /\ scope = IdleScope
    /\ albumDb = EmptyAlbumDb
    /\ albumCall = IdleAlbumCall

\* the service is idle and a request arrives
Request ==
    /\ req.pc = "idle"
    /\ \/ \E u \in UserIds : Call("getExploreData", u, NoDto)
       \/ \E u \in UserIds, dto \in MetadataSearchDtos : Call("searchMetadata", u, dto)
       \/ \E u \in UserIds, dto \in SmartSearchDtos : Call("searchSmart", u, dto)
       \/ \E u \in UserIds, dto \in SearchDtos : Call("search", u, dto)
       \/ \E u \in UserIds : Call("getAssetsByCity", u, NoDto)

NextSearch ==
    \/ Request
    \/ StepRequireSearch
    \/ StepGetConfig
    \/ StepRequireSmart
    \/ StepGetUserIds
    \/ StepEncodeText
    \/ StepSearchSmart
    \/ StepSearchMetadata
    \/ StepAssetSearchMetadata
    \/ StepExploreFields
    \/ StepGetByIds
    \/ StepGetAssetsByCity

SpecSearch == InitSearch /\ [][NextSearch]_vars

\* one invocation of handleQueueSearchDuplicates on a table that does not change
\* meanwhile; ownership and duplicate ids play no part in what is queued
InitQueue ==
    /\ assets0 \in [AssetIds -> [ownerId : {1}, isVisible : BOOLEAN,
                                  resizePath : ResizePaths, duplicateId : {Null}]]
    /\ assets = assets0
    /\ jobStatus \in [AssetIds -> BOOLEAN]
    /\ machineLearning \in [enabled : BOOLEAN,
                            clip : [enabled : BOOLEAN, duplicateThreshold : {0}]]
    /\ uuidCount = 0
    /\ job = [j \in Jobs |-> IdleJob]
    /\ concurrency = 0
    /\ featureFlags = [search |-> TRUE, smartSearch |-> TRUE]
    /\ req = IdleReq
    /\ queueRun = IdleQueueRun
    /\ queue = <<>>
    /\ scope = IdleScope
    /\ albumDb = EmptyAlbumDb
    /\ albumCall = IdleAlbumCall

NextQueue ==
    \/ \E force \in BOOLEAN : QueueStart(force)
    \/ StepNextPage
    \/ StepQueueAll

SpecQueue == InitQueue /\ [][NextQueue]_vars

\* configuration changes, one queue run and one job execution, interleaved; the
\* job is one the queue run queued or one queued elsewhere
InitPipeline ==
    /\ assets0 \in {[a \in AssetIds |->
                       [ownerId |-> 1, isVisible |-> a # hidden,
                        resizePath |-> "thumbs/preview.jpeg", duplicateId |-> Null]] :
                     hidden \in Opt(AssetIds)}
    /\ assets = assets0
    /\ jobStatus = [a \in AssetIds |-> FALSE]
    /\ machineLearning \in [enabled : BOOLEAN,
                            clip : [enabled : BOOLEAN,
                                    duplicateThreshold : 0 .. MaxThreshold]]
    /\ uuidCount = 0
    /\ job = [j \in Jobs |-> IdleJob]
    /\ concurrency = 1
    /\ featureFlags = [search |-> TRUE, smartSearch |-> TRUE]
    /\ req = IdleReq
    /\ queueRun = IdleQueueRun
    /\ queue = <<>>
    /\ scope = IdleScope
    /\ albumDb = EmptyAlbumDb
    /\ albumCall = IdleAlbumCall

NextPipeline ==
    \/ \E enabled \in BOOLEAN, clipEnabled \in BOOLEAN : SetConfig(enabled, clipEnabled)
    \/ NextQueue
    \/ \E j \in Jobs : StartQueued(j)
    \/ NextJobs

SpecPipeline == InitPipeline /\ [][NextPipeline]_vars

\* The album tables the repository is run on.  The statements treat every
\* album by itself, so one album takes every combination of columns and rows
\* and the others a few.  ThumbnailDbs vary what the thumbnail statements read:
\* deletedAt and albumThumbnailAssetId of the album, its album assets, and
\* deletedAt and fileCreatedAt of the assets (all different, or all equal).
ThumbnailDbs ==
    {[EmptyAlbumDb EXCEPT
        !.albums = [a \in AlbumIds |->
                      IF a = focus
                      THEN [EmptyAlbumDb.albums[a] EXCEPT
                              !.deletedAt = deletedAt,
                              !.albumThumbnailAssetId = thumbnail]
                      ELSE EmptyAlbumDb.albums[a]],
        !.assets = [x \in AlbumAssetIds |->
                      [deletedAt |-> IF x \in trashed THEN Deleted ELSE Null,
                       fileCreatedAt |-> IF sameTime THEN 1 ELSE x]],
        !.albums_assets_assets =
            {[albumsId |-> focus, assetsId |-> x] : x \in members}
            \cup {[albumsId |-> a, assetsId |-> 1] : a \in {other} \ {focus, Null}}] :
        focus \in AlbumIds, deletedAt \in {Null, Deleted},
        thumbnail \in AlbumAssetIds \cup {Null}, members \in SUBSET AlbumAssetIds,
        other \in AlbumIds \cup {Null}, trashed \in SUBSET AlbumAssetIds,
        sameTime \in BOOLEAN}

\* SharingDbs vary what the sharing statements read: ownerId and deletedAt of
\* the album, its rows in albums_shared_users_users, and the shared links.
SharedLinkTables ==
    {{[id |-> l, albumId |-> f[l].albumId, userId |-> f[l].userId] :
         l \in {k \in LinkIds : f[k].albumId # Null}} :
        f \in [LinkIds -> [albumId : AlbumIds \cup {Null}, userId : UserIds]]}
SharingDbs ==
    {[EmptyAlbumDb EXCEPT
        !.albums = [a \in AlbumIds |->
                      IF a = focus
                      THEN [EmptyAlbumDb.albums[a] EXCEPT
                              !.ownerId = ownerId, !.deletedAt = deletedAt]
                      ELSE EmptyAlbumDb.albums[a]],
        !.albums_shared_users_users =
            {[albumsId |-> focus, usersId |-> u] : u \in users},
        !.shared_links = links] :
        focus \in AlbumIds, ownerId \in UserIds, deletedAt \in {Null, Deleted},
        users \in SUBSET UserIds, links \in SharedLinkTables}

\* the AlbumRepository on such tables: any of its statements
InitAlbums ==
    /\ assets0 = [a \in AssetIds |->
                    [ownerId |-> 1, isVisible |-> TRUE,
                     resizePath |-> "thumbs/preview.jpeg", duplicateId |-> Null]]
    /\ assets = assets0
    /\ jobStatus = [a \in AssetIds |-> FALSE]
    /\ machineLearning = [enabled |-> TRUE,
                          clip |-> [enabled |-> TRUE, duplicateThreshold |-> 0]]
    /\ uuidCount = 0
    /\ job = [j \in Jobs |-> IdleJob]
    /\ concurrency = 0
    /\ featureFlags = [search |-> TRUE, smartSearch |-> TRUE]
    /\ req = IdleReq
    /\ queueRun = IdleQueueRun
    /\ queue = <<>>
    /\ scope = IdleScope
    /\ albumDb \in ThumbnailDbs \cup SharingDbs
    /\ albumCall = IdleAlbumCall

NextAlbums ==
    \/ \E id \in AlbumIds : CallGetById(id)
    \/ \E ids \in SUBSET AlbumIds : CallGetByIds(ids)
    \/ \E ownerId \in UserIds, assetId \in AlbumAssetIds : CallGetByAssetId(ownerId, assetId)
    \/ \E ids \in SUBSET AlbumIds : CallGetMetadataForIds(ids)
    \/ CallGetInvalidThumbnail
    \/ \E ownerId \in UserIds : CallGetOwned(ownerId)
    \/ \E ownerId \in UserIds : CallGetShared(ownerId)
    \/ \E ownerId \in UserIds : CallGetNotShared(ownerId)
    \/ CallGetAll
    \/ \E albumId \in AlbumIds, assetId \in AlbumAssetIds : CallHasAsset(albumId, assetId)
    \/ \E albumId \in AlbumIds, assetIds \in SUBSET AlbumAssetIds \ {{}} :
          CallGetAssetIds(albumId, assetIds)
    \/ \E albumId \in AlbumIds : CallGetAssetIdsNoAssets(albumId)
    \/ \E assetId \in AlbumAssetIds : RemoveAsset(assetId)
    \/ \E albumId \in AlbumIds, assetIds \in SUBSET AlbumAssetIds \ {{}} :
          RemoveAssetIds(albumId, assetIds)
    \/ \E albumId \in AlbumIds, assetId \in AlbumAssetIds : AddAssetIds(albumId, assetId)
    \/ UpdateThumbnails
    \/ AlbumReturn

SpecAlbums == InitAlbums /\ [][NextAlbums]_vars

\* getUserIdsToSearch as a function of the caller and of the partner records
InitScope ==
    /\ assets0 = [a \in AssetIds |->
                    [ownerId |-> 1, isVisible |-> TRUE,
                     resizePath |-> "thumbs/preview.jpeg", duplicateId |-> Null]]
    /\ assets = assets0
    /\ jobStatus = [a \in AssetIds |-> FALSE]
    /\ machineLearning = [enabled |-> TRUE,
                          clip |-> [enabled |-> TRUE, duplicateThreshold |-> 0]]
    /\ uuidCount = 0
    /\ job = [j \in Jobs |-> IdleJob]
    /\ concurrency = 0
    /\ featureFlags = [search |-> TRUE, smartSearch |-> TRUE]
    /\ req = IdleReq
    /\ queueRun = IdleQueueRun
    /\ queue = <<>>
    /\ scope = IdleScope
    /\ albumDb = EmptyAlbumDb
    /\ albumCall = IdleAlbumCall

NextScope == \E authUserId \in UserIds, partners \in PartnerLists :
                GetUserIds(authUserId, partners)

SpecScope == InitScope /\ [][NextScope]_vars

\* ------------------------------------------------------------------ claims
Count(calls, name) == Cardinality({i \in 1 .. Len(calls) : calls[i] = name})
Called(j, name) == Count(job[j].calls, name) > 0
\* the row of the processed asset before the job ran
Row(j) == GetById(assets0, job[j].id)
\* positions of the returned duplicates that carry a duplicate id
WithId(duplicateAssets) ==
    {i \in 1 .. Len(duplicateAssets) : duplicateAssets[i].duplicateId # Null}
Min(S) == CHOOSE x \in S : \A y \in S : x <= y
StoredIds(tbl) == {tbl[a].duplicateId : a \in DOMAIN tbl}

\* C1: when searchDuplicates returned at least one duplicate, the duplicateId
\* given to upsert is the duplicateId of the first returned duplicate that has
\* one, and randomUUID() is called (and its fresh value used) exactly when no
\* returned duplicate has one.
C1_FirstExistingDuplicateId ==
    \A j \in Jobs :
        LET da == job[j].duplicateAssets IN
        Len(da) > 0 =>
            /\ job[j].usedUUID <=> (WithId(da) = {})
            /\ WithId(da) # {} => job[j].duplicateId = da[Min(WithId(da))].duplicateId
            /\ WithId(da) = {} =>
                   /\ job[j].duplicateId # Null
                   /\ job[j].duplicateId \notin StoredIds(assets0)
            /\ Called(j, "upsert") /\ job[j].rejected # "upsert" =>
                   \A i \in 1 .. Len(da) : assets[da[i].assetId].duplicateId = job[j].duplicateId
C1_Witness ==
    \E j \in Jobs :
        /\ Called(j, "upsert") /\ job[j].rejected = "none"
        /\ Len(job[j].duplicateAssets) = 2
        /\ job[j].duplicateAssets[1].duplicateId = Null
        /\ job[j].duplicateAssets[2].duplicateId # Null

\* C2: one invocation calls upsert at most once; a finished invocation called
\* it exactly once when the asset exists, is visible, has no duplicateId, has a
\* resizePath and searchDuplicates returned a non-empty list, and not at all
\* otherwise.
C2_UpsertAtMostOnce ==
    \A j \in Jobs :
        /\ Count(job[j].calls, "upsert") <= 1
        /\ job[j].pc = "done" =>
              (Count(job[j].calls, "upsert") = 1 <=>
                  /\ Row(j).found /\ Row(j).isVisible /\ Row(j).duplicateId = Null
                  /\ Row(j).resizePath # NoPath
                  /\ Len(job[j].duplicateAssets) > 0)
        /\ Called(j, "searchDuplicates") /\ job[j].rejected # "searchDuplicates"
           /\ Len(job[j].duplicateAssets) = 0 => ~Called(j, "upsert")
C2_Witness ==
    \E j \in Jobs :
        /\ job[j].pc = "done" /\ Count(job[j].calls, "upsert") = 1
        /\ Len(job[j].duplicateAssets) > 0

\* C3: an invocation whose repository calls return ends with one of SKIPPED,
\* FAILED, SUCCESS: FAILED iff the asset is missing, or visible without
\* duplicateId and without resizePath; SKIPPED iff it exists and is hidden or
\* has a duplicateId; SUCCESS otherwise.  Until it has ended, its next step is
\* enabled.
C3_StatusByGuards ==
    \A j \in Jobs :
        /\ job[j].pc = "done" =>
              /\ job[j].status \in JobStatus
              /\ job[j].status = FAILED <=>
                    \/ ~Row(j).found
                    \/ /\ Row(j).isVisible /\ Row(j).duplicateId = Null
                       /\ Row(j).resizePath = NoPath
              /\ job[j].status = SKIPPED <=>
                    /\ Row(j).found
                    /\ ~Row(j).isVisible \/ Row(j).duplicateId # Null
              /\ job[j].status = SUCCESS <=>
                    /\ Row(j).found /\ Row(j).isVisible /\ Row(j).duplicateId = Null
                    /\ Row(j).resizePath # NoPath
        /\ job[j].pc # "done" => job[j].status = "none"
        /\ job[j].pc \in Awaiting =>
              ENABLED (\/ StepGetById(j) \/ StepSkipJobStatus(j) \/ StepSearchDuplicates(j)
                       \/ StepUpsert(j) \/ StepUpsertJobStatus(j))
C3_Witness ==
    \E j \in Jobs :
        /\ job[j].pc = "done" /\ job[j].status = SKIPPED
        /\ Row(j).isVisible /\ Row(j).duplicateId # Null /\ Row(j).resizePath = NoPath

\* C7: an invocation makes each of getById, searchDuplicates, upsert and
\* upsertJobStatus at most once, and when searchDuplicates or upsert rejects the
\* invocation ends with the rejection: it returns no status, upsertJobStatus is
\* not called and duplicatesDetectedAt is not recorded for the asset.
C7_NoRetryNoRecovery ==
    \A j \in Jobs :
        /\ \A c \in {"getById", "searchDuplicates", "upsert", "upsertJobStatus"} :
               Count(job[j].calls, c) <= 1
        /\ job[j].rejected \in {"searchDuplicates", "upsert"} =>
               /\ job[j].pc = "thrown"
               /\ job[j].status = "none"
               /\ ~Called(j, "upsertJobStatus")
               /\ ~jobStatus[job[j].id]
C7_Witness ==
    \E j \in Jobs :
        /\ job[j].rejected = "upsert" /\ job[j].pc = "thrown"
        /\ Len(job[j].duplicateAssets) > 0

\* handleSearchDuplicates run from its first line to its return with no other
\* job in between: the tables it can leave, each with the count of uuids used
RunJob(tbl, id, maxDistance, n) ==
    LET asset == GetById(tbl, id) IN
    IF Guard(asset) # "search" THEN {[tbl |-> tbl, n |-> n]}
    ELSE {IF AfterSearch(da) = "upsert"
          THEN LET ids == FilterBoolean(da)
                   chosen == ChooseDuplicateId(ids, n)
               IN [tbl |-> Upsert(tbl, chosen.duplicateId, DuplicateAssetIds(da, id), ids),
                   n |-> IF chosen.usedUUID THEN n + 1 ELSE n]
          ELSE [tbl |-> tbl, n |-> n] :
             da \in SearchDuplicates(tbl, id, maxDistance, {asset.ownerId})}

RECURSIVE SerialRun(_, _, _, _)
\* the tables a one-at-a-time execution of the jobs `ids`, in this order, can end in
SerialRun(tbl, ids, maxDistance, n) ==
    IF ids = <<>> THEN {tbl}
    ELSE UNION {SerialRun(t.tbl, Tail(ids), maxDistance, t.n) :
                    t \in RunJob(tbl, Head(ids), maxDistance, n)}

\* the duplicate groups of a table: the sets of assets sharing a duplicateId
Partition(tbl) ==
    {{a \in DOMAIN tbl : tbl[a].duplicateId = d} : d \in StoredIds(tbl) \ {Null}}

SerialPartitions ==
    {Partition(t) :
        t \in UNION {SerialRun(assets0, [i \in 1 .. Len(o) |-> job[o[i]].id],
                               machineLearning.clip.duplicateThreshold, 0) :
                        o \in Orderings(Jobs)}}

\* C8: when concurrent handleSearchDuplicates jobs over distinct assets have
\* all returned, the duplicate groups are those of some one-at-a-time
\* execution of the same jobs.
C8_SerializableGroups ==
    (/\ \A j \in Jobs : job[j].pc = "done"
     /\ \A j, k \in Jobs : job[j].id = job[k].id => j = k)
        => Partition(assets) \in SerialPartitions

\* ------------------------------------------------ claims on the request handlers
ReqCalled(name) == Count(req.calls, name) > 0
\* position of the first call of this name (0: never called)
FirstCall(name) ==
    IF ReqCalled(name) THEN Min({i \in 1 .. Len(req.calls) : req.calls[i] = name}) ELSE 0
Backends ==
    {"machineLearning.encodeText", "searchRepository.searchSmart",
     "assetRepository.searchMetadata"}
\* the value of a string of decimal digits
DigitValue(c) ==
    CASE c = "0" -> 0 [] c = "1" -> 1 [] c = "2" -> 2 [] c = "3" -> 3 [] c = "4" -> 4
      [] c = "5" -> 5 [] c = "6" -> 6 [] c = "7" -> 7 [] c = "8" -> 8 [] c = "9" -> 9
RECURSIVE ParseDecimal(_)
ParseDecimal(str) ==
    IF Len(str) = 1 THEN DigitValue(str[1])
    ELSE 10 * ParseDecimal(SubSeq(str, 1, Len(str) - 1)) + DigitValue(str[Len(str)])
IsDecimalOf(str, n) ==
    /\ Len(str) >= 1
    /\ Len(str) > 1 => str[1] # "0"
    /\ ParseDecimal(str) = n

\* C4: search() with SEARCH enabled and neither dto.q nor dto.query non-empty
\* never gets past getConfig: it makes no partner lookup and queries no
\* backend, and it ends by throwing 'Missing query'.
C4_MissingQueryFirst ==
    (/\ req.op = "search" /\ featureFlags.search
     /\ ~TruthyString(req.dto.q) /\ ~TruthyString(req.dto.query))
        => /\ req.pc \in {"requireSearch", "getConfig", "thrown"}
           /\ req.pc = "thrown" => req.error = "Missing query"
           /\ ~ReqCalled("partnerRepository.getAll")
           /\ \A b \in Backends \cup {"searchRepository.searchMetadata"} : ~ReqCalled(b)
C4_Witness ==
    /\ req.op = "search" /\ featureFlags.search /\ ~featureFlags.smartSearch
    /\ req.dto.q = Some("") /\ req.dto.query = None /\ req.dto.smart
    /\ req.pc = "thrown" /\ req.error = "Missing query"

\* C5: search() is SMART iff dto.smart or dto.clip is set and TEXT otherwise;
\* SMART calls encodeText, then searchSmart, and never
\* assetRepository.searchMetadata; TEXT calls assetRepository.searchMetadata and
\* neither of the other two; a call that succeeds queried exactly one backend.
C5_TwoStrategies ==
    req.op = "search" =>
        LET smart == req.dto.smart \/ req.dto.clip IN
        /\ ReqCalled("machineLearning.encodeText") \/ ReqCalled("searchRepository.searchSmart")
              => smart /\ req.strategy = SMART
        /\ ReqCalled("assetRepository.searchMetadata") => ~smart /\ req.strategy = TEXT
        /\ ReqCalled("searchRepository.searchSmart") =>
              /\ ReqCalled("machineLearning.encodeText")
              /\ FirstCall("machineLearning.encodeText") < FirstCall("searchRepository.searchSmart")
        /\ req.pc = "done" =>
              /\ req.strategy = (IF smart THEN SMART ELSE TEXT)
              /\ Count(req.calls, "searchRepository.searchSmart")
                   + Count(req.calls, "assetRepository.searchMetadata") = 1
              /\ smart <=> ReqCalled("searchRepository.searchSmart")
C5_Witness ==
    /\ req.op = "search" /\ req.pc = "done"
    /\ req.dto.clip /\ ~req.dto.smart
    /\ ReqCalled("searchRepository.searchSmart")

\* C6: getExploreData and search() call requireFeature(SEARCH) before anything
\* else; encodeText and searchSmart are called only after
\* requireFeature(SMART_SEARCH); a feature check that rejects is the last call
\* of the request, which fails; a TEXT search with SMART_SEARCH disabled makes
\* no SMART_SEARCH check and does not fail.
C6_FeatureCheckFirst ==
    /\ req.op \in {"getExploreData", "search"} /\ req.calls # <<>>
          => req.calls[1] = "requireFeature(SEARCH)"
    /\ req.op = "searchSmart" /\ req.calls # <<>>
          => req.calls[1] = "requireFeature(SMART_SEARCH)"
    /\ \A b \in {"machineLearning.encodeText", "searchRepository.searchSmart"} :
          ReqCalled(b) => /\ ReqCalled("requireFeature(SMART_SEARCH)")
                          /\ FirstCall("requireFeature(SMART_SEARCH)") < FirstCall(b)
                          /\ featureFlags.smartSearch
    /\ \A i \in 1 .. Len(req.calls) :
          \/ req.calls[i] = "requireFeature(SEARCH)" /\ ~featureFlags.search
          \/ req.calls[i] = "requireFeature(SMART_SEARCH)" /\ ~featureFlags.smartSearch
          => i = Len(req.calls) /\ req.pc = "thrown" /\ req.error = "feature disabled"
    /\ (/\ req.op = "search" /\ featureFlags.search /\ ~featureFlags.smartSearch
        /\ ~req.dto.smart /\ ~req.dto.clip
        /\ TruthyString(req.dto.q) \/ TruthyString(req.dto.query))
          => req.pc # "thrown" /\ ~ReqCalled("requireFeature(SMART_SEARCH)")
C6_Witness ==
    /\ req.op = "search" /\ ~featureFlags.smartSearch
    /\ req.pc = "done" /\ ReqCalled("assetRepository.searchMetadata")

\* C9: searchMetadata and searchSmart request page dto.page, or 1 when it is
\* absent; nextPage is the decimal string of that page plus one when the
\* repository reports hasNextPage and null when it does not.
C9_Pagination ==
    req.op \in {"searchMetadata", "searchSmart"} /\ req.pc = "done" =>
        /\ req.dto.page = None => req.pagination.page = 1
        /\ req.dto.page # None => req.pagination.page = req.dto.page[1]
        /\ req.repo.hasNextPage =>
              /\ req.response.assets.nextPage # None
              /\ IsDecimalOf(req.response.assets.nextPage[1], req.pagination.page + 1)
        /\ ~req.repo.hasNextPage => req.response.assets.nextPage = None
C9_Witness ==
    /\ req.op = "searchSmart" /\ req.pc = "done"
    /\ req.dto.page # None /\ req.dto.page[1] >= 9
    /\ req.repo.hasNextPage /\ Len(req.response.assets.nextPage[1]) = 2

\* C10: a response of search, searchMetadata or searchSmart has assets.total =
\* assets.count = the number of assets the repository returned, one item per
\* returned asset in the same order, and albums with total 0, count 0 and no
\* items.
C10_ResponseShape ==
    req.op \in {"search", "searchMetadata", "searchSmart"} /\ req.pc = "done" =>
        LET r == req.response IN
        /\ r.assets.total = Len(req.repo.items)
        /\ r.assets.count = Len(req.repo.items)
        /\ Len(r.assets.items) = Len(req.repo.items)
        /\ \A i \in 1 .. Len(req.repo.items) : r.assets.items[i].id = req.repo.items[i]
        /\ r.albums.total = 0 /\ r.albums.count = 0 /\ r.albums.items = <<>>
C10_Witness ==
    /\ req.op = "search" /\ req.pc = "done" /\ Len(req.repo.items) = 2
    /\ req.response.assets.items[1].id > req.response.assets.items[2].id

\* ------------------------------------- more claims on handleSearchDuplicates
\* the i-th smallest element of a finite set of numbers
Kth(S, i) == CHOOSE x \in S : Cardinality({y \in S : y <= x}) = i
NothingStored ==
    /\ assets = assets0
    /\ \A a \in AssetIds : ~jobStatus[a]
    /\ uuidCount = 0

\* C11: an invocation on an existing asset that is not visible calls neither
\* searchDuplicates nor upsert, and when it has returned it returned SKIPPED
\* after exactly one upsertJobStatus, which recorded duplicatesDetectedAt for
\* that asset and for no other.
C11_HiddenAssetSkipped ==
    \A j \in Jobs :
        Row(j).found /\ ~Row(j).isVisible =>
            /\ ~Called(j, "searchDuplicates") /\ ~Called(j, "upsert")
            /\ assets = assets0
            /\ job[j].pc = "done" =>
                  /\ job[j].status = SKIPPED
                  /\ Count(job[j].calls, "upsertJobStatus") = 1
                  /\ \A a \in AssetIds : jobStatus[a] <=> a = job[j].id
C11_Witness ==
    \E j \in Jobs :
        /\ job[j].pc = "done" /\ job[j].status = SKIPPED
        /\ Row(j).found /\ ~Row(j).isVisible /\ jobStatus[job[j].id]

\* C12: on the three exits asset not found, visible asset that already has a
\* duplicateId, and visible asset with neither duplicateId nor resizePath, the
\* invocation writes nothing: the asset table and the job statuses are as
\* before, and getById is its only repository call.
C12_EarlyExitsWriteNothing ==
    \A j \in Jobs :
        (\/ job[j].pc # "idle" /\ ~Row(j).found
         \/ Row(j).found /\ Row(j).isVisible /\ Row(j).duplicateId # Null
         \/ /\ Row(j).found /\ Row(j).isVisible /\ Row(j).duplicateId = Null
            /\ Row(j).resizePath = NoPath)
        => /\ NothingStored
           /\ Range(job[j].calls) \subseteq {"getById"}
           /\ job[j].pc = "done" =>
                 job[j].status = (IF Row(j).found /\ Row(j).duplicateId # Null
                                  THEN SKIPPED ELSE FAILED)
C12_Witness ==
    \E j \in Jobs :
        /\ job[j].pc = "done" /\ job[j].status = SKIPPED
        /\ Row(j).isVisible /\ Row(j).duplicateId # Null /\ NothingStored

\* C13: the first guard that applies decides: a hidden asset returns SKIPPED
\* with duplicatesDetectedAt recorded even when it has a duplicateId or no
\* resizePath, and a visible asset with a duplicateId returns SKIPPED, with
\* nothing recorded, even when it has no resizePath.
C13_GuardOrder ==
    \A j \in Jobs :
        job[j].pc = "done" /\ Row(j).found =>
            /\ ~Row(j).isVisible =>
                  /\ job[j].status = SKIPPED
                  /\ jobStatus[job[j].id]
                  /\ job[j].calls = <<"getById", "upsertJobStatus">>
            /\ Row(j).isVisible /\ Row(j).duplicateId # Null =>
                  /\ job[j].status = SKIPPED
                  /\ ~jobStatus[job[j].id]
                  /\ job[j].calls = <<"getById">>
C13_Witness ==
    \E j \in Jobs :
        /\ job[j].pc = "done" /\ job[j].status = SKIPPED /\ jobStatus[job[j].id]
        /\ Row(j).found /\ ~Row(j).isVisible
        /\ Row(j).duplicateId # Null /\ Row(j).resizePath = NoPath

\* C14: an invocation that returned SUCCESS made exactly the calls getById,
\* searchDuplicates, upsert when duplicates were found, upsertJobStatus, in
\* this order, and duplicatesDetectedAt is recorded for the asset.
C14_StatusRecordedLast ==
    \A j \in Jobs :
        job[j].status = SUCCESS =>
            /\ job[j].pc = "done"
            /\ job[j].calls =
                  (IF Len(job[j].duplicateAssets) > 0
                   THEN <<"getById", "searchDuplicates", "upsert", "upsertJobStatus">>
                   ELSE <<"getById", "searchDuplicates", "upsertJobStatus">>)
            /\ jobStatus[job[j].id]
C14_Witness ==
    \E j \in Jobs :
        /\ job[j].status = SUCCESS /\ Len(job[j].duplicateAssets) > 0
        /\ Called(j, "upsert") /\ jobStatus[job[j].id]

\* C15: the upsert gets the assetIds of the returned duplicates in order with
\* the processed asset's id appended, and the non-empty duplicateIds of the
\* returned duplicates in order; the duplicateId is the first of these or a
\* value that is none of them.
C15_UpsertArguments ==
    \A j \in Jobs :
        LET da == job[j].duplicateAssets
            ids == job[j].duplicateAssetIds
            dups == job[j].duplicateIds
        IN job[j].pc = "upsert" \/ Called(j, "upsert") =>
            /\ Len(ids) = Len(da) + 1
            /\ \A i \in 1 .. Len(da) : ids[i] = da[i].assetId
            /\ ids[Len(ids)] = job[j].id
            /\ Len(dups) = Cardinality(WithId(da))
            /\ \A i \in 1 .. Len(dups) : dups[i] = da[Kth(WithId(da), i)].duplicateId
            /\ \/ dups # <<>> /\ job[j].duplicateId = dups[1]
               \/ job[j].duplicateId \notin Range(dups)
C15_Witness ==
    \E j \in Jobs :
        /\ Called(j, "upsert") /\ job[j].rejected = "none"
        /\ Len(job[j].duplicateAssets) = 2 /\ Len(job[j].duplicateIds) = 1
        /\ job[j].duplicateAssets[1].duplicateId = Null

\* ------------------------------------- claims on handleQueueSearchDuplicates
RECURSIVE Flatten(_)
Flatten(pages) == IF pages = <<>> THEN <<>> ELSE Head(pages) \o Flatten(Tail(pages))
QueuedIds == [i \in 1 .. Len(queue) |-> queue[i].data.id]
\* the pages whose queueAll has been awaited
QueuedPages ==
    IF queueRun.pc = "queueAll"
    THEN SubSeq(queueRun.yielded, 1, Len(queueRun.yielded) - 1)
    ELSE queueRun.yielded
\* the assets the claim has each mode page through
Eligible ==
    IF queueRun.force
    THEN {a \in AssetIds : assets[a].isVisible}
    ELSE {a \in AssetIds : assets[a].isVisible /\ assets[a].resizePath # NoPath
                              /\ ~jobStatus[a]}

\* C16: with machineLearning.enabled or machineLearning.clip.enabled false the
\* handler returns SKIPPED having read the configuration only: no page is
\* asked for and no job is queued.  Otherwise it returns SUCCESS, and only
\* after a page that reported no next page has been queued.
C16_DisabledSkips ==
    queueRun.pc # "idle" =>
        IF ~machineLearning.enabled \/ ~machineLearning.clip.enabled
        THEN /\ queueRun.pc = "done" /\ queueRun.status = SKIPPED
             /\ queueRun.calls = <<"getConfig">>
             /\ queueRun.yielded = <<>> /\ queue = <<>>
        ELSE /\ queueRun.status \in {"none", SUCCESS}
             /\ queueRun.pc = "done" <=> queueRun.status = SUCCESS
             /\ queueRun.status = SUCCESS =>
                   /\ ~queueRun.hasNextPage
                   /\ queueRun.yielded # <<>>
                   /\ queueRun.calls[Len(queueRun.calls)] = "jobRepository.queueAll"
C16_Witness ==
    /\ queueRun.pc = "done" /\ queueRun.status = SKIPPED
    /\ machineLearning.enabled /\ ~machineLearning.clip.enabled
    /\ Eligible # {}

\* C17: with machine learning and clip enabled the pages come from getAll when
\* force is set and from getWithout otherwise; the jobs queued are one
\* DUPLICATE_DETECTION job per asset of every page whose queueAll was awaited,
\* with that asset's id, in page order, and nothing else; the loop goes on
\* exactly while the last page reported a next page, and when the handler has
\* returned SUCCESS every asset of the mode has been queued once.
C17_QueuesEveryPage ==
    queueRun.pc # "idle" /\ machineLearning.enabled /\ machineLearning.clip.enabled =>
        /\ \A i \in 2 .. Len(queueRun.calls) :
              queueRun.calls[i] =
                 (IF i % 2 = 1 THEN "jobRepository.queueAll"
                  ELSE IF queueRun.force THEN "assetRepository.getAll"
                  ELSE "assetRepository.getWithout")
        /\ Len(queueRun.calls) = 1 + Len(queueRun.yielded) + Len(QueuedPages)
        /\ QueuedIds = Flatten(QueuedPages)
        /\ \A i \in 1 .. Len(queue) : queue[i].name = DUPLICATE_DETECTION
        /\ \A i \in 1 .. Len(queueRun.yielded) :
              Len(queueRun.yielded[i]) <= JOBS_ASSET_PAGINATION_SIZE
        /\ Range(QueuedIds) \subseteq Eligible
        /\ Cardinality(Range(QueuedIds)) = Len(QueuedIds)
        /\ queueRun.pc = "nextPage" /\ queueRun.yielded # <<>> => queueRun.hasNextPage
        /\ queueRun.pc = "done" =>
              /\ queueRun.status = SUCCESS
              /\ ~queueRun.hasNextPage
              /\ Range(QueuedIds) = Eligible
        /\ queueRun.pc # "done" => ENABLED (StepNextPage \/ StepQueueAll)
C17_Witness ==
    /\ queueRun.pc = "done" /\ queueRun.status = SUCCESS /\ queueRun.force
    /\ Len(queueRun.yielded) = 2 /\ Len(queue) > JOBS_ASSET_PAGINATION_SIZE
    /\ \E a \in AssetIds : assets[a].isVisible /\ jobStatus[a]

\* ------------------------------------------ more claims on the search handlers
\* C18: the size asked of the repository is dto.size, or when that is absent
\* or 0 the default: 250 in searchMetadata, 100 in searchSmart, 100 in search()
\* under SMART and 250 (as numResults) in search() under TEXT; search() under
\* TEXT returns nextPage null whatever dto.page is.
C18_SizeDefaults ==
    req.pc = "done" /\ req.op \in {"searchMetadata", "searchSmart", "search"} =>
        LET default == IF \/ req.op = "searchMetadata"
                          \/ req.op = "search" /\ req.strategy = TEXT
                       THEN 250 ELSE 100
            given == req.dto.size # None /\ req.dto.size[1] # 0
        IN /\ req.pagination.size = (IF given THEN req.dto.size[1] ELSE default)
           /\ req.op = "search" /\ req.strategy = TEXT =>
                 /\ req.response.assets.nextPage = None
                 /\ ReqCalled("assetRepository.searchMetadata")
           /\ req.op = "search" /\ req.strategy = SMART =>
                 ReqCalled("searchRepository.searchSmart")
C18_Witness ==
    /\ req.pc = "done" /\ req.op = "search" /\ req.strategy = TEXT
    /\ req.dto.size = Some(0) /\ req.dto.page = Some(MaxPage)
    /\ req.pagination.size = 250 /\ req.response.assets.nextPage = None
    /\ Len(req.repo.items) = MaxItems

\* C19: getExploreData answers with the city entry then the tag entry, each with
\* the fieldName and as many items as the repository returned, item by item
\* with the same value and with the response DTO of the asset the repository
\* listed; getByIdsWithAllRelations is called once, with every listed id once.
C19_ExploreData ==
    req.op = "getExploreData" /\ req.pc = "done" =>
        LET results == req.explore
            answer == req.exploreResponse
        IN /\ Len(answer) = 2 /\ Len(results) = 2
           /\ answer[1].fieldName = "exifInfo.city"
           /\ answer[2].fieldName = "smartInfo.tags"
           /\ \A f \in 1 .. 2 :
                 /\ answer[f].fieldName = results[f].fieldName
                 /\ Len(answer[f].items) = Len(results[f].items)
                 /\ \A i \in 1 .. Len(results[f].items) :
                       /\ answer[f].items[i].value = results[f].items[i].value
                       /\ answer[f].items[i].data = MapAsset(results[f].items[i].data)
           /\ Count(req.calls, "assetRepository.getByIdsWithAllRelations") = 1
           /\ Cardinality(Range(req.byIds)) = Len(req.byIds)
           /\ Range(req.byIds) =
                 UNION {{results[f].items[i].data : i \in 1 .. Len(results[f].items)} :
                           f \in 1 .. 2}

\* C20: the scope is the caller's own id followed by the sharedById of the
\* partner records that have sharedBy set and inTimeline true, one element per
\* such record, in the order of the records; a record with inTimeline false
\* contributes no element.
Passing == {i \in 1 .. Len(scope.partners) :
               scope.partners[i].sharedBy /\ scope.partners[i].inTimeline}
C20_UserIdScope ==
    scope.pc = "done" =>
        /\ scope.userIds[1] = scope.authUserId
        /\ Len(scope.userIds) = 1 + Cardinality(Passing)
        /\ \A k \in 1 .. Cardinality(Passing) :
              scope.userIds[k + 1] = scope.partners[Kth(Passing, k)].sharedById
C20_Witness ==
    /\ scope.pc = "done" /\ Len(scope.partners) = 2
    /\ scope.partners[1].sharedBy /\ ~scope.partners[1].inTimeline
    /\ scope.partners[2].sharedBy /\ scope.partners[2].inTimeline
    /\ scope.partners[1].sharedById # scope.authUserId
    /\ scope.partners[1].sharedById # scope.partners[2].sharedById
    /\ scope.userIds = <<scope.authUserId, scope.partners[2].sharedById>>

\* -------------------------------------------------- claims on owner scoping
\* C21: searchDuplicates is called with the processed asset's id, with the
\* configured clip.duplicateThreshold as maxDistance and with the one-element
\* list of the asset's owner as userIds; every asset id handed to upsert
\* belongs to the owner of the processed asset.
C21_SameOwner ==
    \A j \in Jobs :
        /\ Called(j, "searchDuplicates") =>
              /\ job[j].searchOptions.assetId = job[j].id
              /\ job[j].searchOptions.userIds = <<Row(j).ownerId>>
              /\ job[j].searchOptions.maxDistance = machineLearning.clip.duplicateThreshold
              /\ \A i \in 1 .. Len(job[j].duplicateAssets) :
                    assets0[job[j].duplicateAssets[i].assetId].ownerId = Row(j).ownerId
        /\ job[j].pc = "upsert" \/ Called(j, "upsert") =>
              \A a \in Range(job[j].duplicateAssetIds) :
                  assets0[a].ownerId = Row(j).ownerId
C21_Witness ==
    \E j \in Jobs :
        /\ Called(j, "upsert") /\ job[j].rejected = "none"
        /\ Len(job[j].duplicateAssetIds) = 2
        /\ \E b \in AssetIds :
              /\ assets0[b].ownerId # Row(j).ownerId
              /\ assets0[b].isVisible
              /\ Distance(job[j].id, b) <= job[j].searchOptions.maxDistance

\* ----------------------------------------------------- claims on the pipeline
\* C22: whenever an invocation of handleSearchDuplicates has a searchDuplicates
\* or an upsert call under way, machineLearning.enabled and
\* machineLearning.clip.enabled are both true.
C22_OnlyWhileEnabled ==
    \A j \in Jobs :
        job[j].pc \in {"searchDuplicates", "upsert"} =>
            machineLearning.enabled /\ machineLearning.clip.enabled

\* ----------------------------------------------- claims on the AlbumRepository
AlbumAssetRows(a) == {r \in albumDb.albums_assets_assets : r.albumsId = a}
LiveAlbumAssets(a) ==
    {r.assetsId : r \in {q \in AlbumAssetRows(a) : albumDb.assets[q.assetsId].deletedAt = Null}}
\* the claim's valid thumbnail: null without album assets, or one of the album's assets
ValidThumbnail(row, a) ==
    \/ row.albumThumbnailAssetId = Null /\ AlbumAssetRows(a) = {}
    \/ /\ row.albumThumbnailAssetId # Null
       /\ \E r \in AlbumAssetRows(a) : r.assetsId = row.albumThumbnailAssetId

\* C23: right after updateThumbnails, getInvalidThumbnail returns no album:
\* every album that is not deleted has a valid thumbnail; and the thumbnail
\* given to a repaired album is one of its assets that are not deleted, with
\* the greatest fileCreatedAt among them.
C23_ThumbnailsRepaired ==
    albumCall.op = "updateThumbnails" =>
        /\ GetInvalidThumbnail(albumDb) = {}
        /\ \A a \in AlbumIds :
              albumDb.albums[a].deletedAt = Null => ValidThumbnail(albumDb.albums[a], a)
        /\ \A a \in albumCall.result :
              albumDb.albums[a].albumThumbnailAssetId # Null =>
                  /\ albumDb.albums[a].albumThumbnailAssetId \in LiveAlbumAssets(a)
                  /\ \A x \in LiveAlbumAssets(a) :
                        albumDb.assets[albumDb.albums[a].albumThumbnailAssetId].fileCreatedAt
                            >= albumDb.assets[x].fileCreatedAt

\* C24: updateThumbnails leaves albumThumbnailAssetId and updatedAt as they were
\* for every album whose thumbnail was valid and for every soft-deleted album.
C24_OnlyInvalidChanged ==
    albumCall.op = "updateThumbnails" =>
        \A a \in AlbumIds :
            ValidThumbnail(albumCall.before[a], a) \/ albumCall.before[a].deletedAt # Null =>
                /\ albumDb.albums[a].albumThumbnailAssetId =
                      albumCall.before[a].albumThumbnailAssetId
                /\ albumDb.albums[a].updatedAt = albumCall.before[a].updatedAt

\* what the claim says of one user's albums: each album of getOwned is in
\* exactly one of getNotShared and getShared, and getNotShared has only albums
\* of the user without album-user row and without shared link
SplitBySharing(u) ==
    /\ \A a \in Range(GetOwned(albumDb, u)) :
          (a \in Range(GetNotShared(albumDb, u))) # (a \in Range(GetShared(albumDb, u)))
    /\ \A a \in Range(GetNotShared(albumDb, u)) :
          /\ albumDb.albums[a].ownerId = u
          /\ ~\E r \in albumDb.albums_shared_users_users : r.albumsId = a
          /\ ~\E l \in albumDb.shared_links : l.albumId = a
\* every shared link of an album belongs to the owner of the album
LinksByOwner ==
    \A l \in albumDb.shared_links : l.userId = albumDb.albums[l.albumId].ownerId

\* C25 as stated: in every state of the tables and for every user, the user's
\* albums are split in two by getNotShared and getShared.
C25_SplitInEveryState == \A u \in UserIds : SplitBySharing(u)

\* C25: in every state of the tables in which every shared link of an album
\* belongs to the album's owner, and for every user, each album of getOwned is in
\* exactly one of getNotShared and getShared, and getNotShared has only albums
\* of the user without album-user row and without shared link.
C25_SplitWhenLinksByOwner == LinksByOwner => \A u \in UserIds : SplitBySharing(u)
C25_Witness ==
    /\ albumCall.op = "getShared" /\ LinksByOwner
    /\ LET u == albumCall.args[1] IN
       /\ \E a \in Range(albumCall.result) :
             /\ albumDb.albums[a].ownerId = u
             /\ ~\E r \in albumDb.albums_shared_users_users : r.albumsId = a
             /\ \E l \in albumDb.shared_links : l.albumId = a
       /\ GetNotShared(albumDb, u) # <<>>
       /\ Len(GetOwned(albumDb, u)) = NumAlbums

\* C26: no query that returns albums returns a soft-deleted one, and hasAsset
\* is false for a soft-deleted album and for a soft-deleted asset.
ReturnedAlbums ==
    CASE albumCall.op \in {"getById", "getByIds", "getInvalidThumbnail", "getAll"} ->
            albumCall.result
      [] albumCall.op \in {"getByAssetId", "getOwned", "getShared", "getNotShared"} ->
            Range(albumCall.result)
      [] albumCall.op = "getMetadataForIds" -> {m.albumId : m \in albumCall.result}
      [] OTHER -> {}
C26_NoSoftDeleted ==
    /\ \A a \in ReturnedAlbums : albumDb.albums[a].deletedAt = Null
    /\ /\ albumCall.op = "hasAsset"
       /\ \/ albumDb.albums[albumCall.args[1]].deletedAt # Null
          \/ albumDb.assets[albumCall.args[2]].deletedAt # Null
       => albumCall.result = FALSE
C26_Witness ==
    /\ albumCall.op = "hasAsset" /\ albumCall.result = FALSE
    /\ [albumsId |-> albumCall.args[1], assetsId |-> albumCall.args[2]]
          \in albumDb.albums_assets_assets
    /\ albumDb.albums[albumCall.args[1]].deletedAt = Null
    /\ albumDb.assets[albumCall.args[2]].deletedAt # Null
    /\ \E a \in AlbumIds : albumDb.albums[a].deletedAt # Null

====
